---- MODULE Spec2Model ----
(***************************************************************************)
(* A model of the SVG template engine of Printplog/backend:               *)
(*   api/svg_parser.py   identifier grammar parser and field builder       *)
(*   api/svg_sync.py     incremental sync of form_fields with patches      *)
(*   api/svg_utils.py    patch application and patch merge                 *)
(*   api/svg_updater.py  renderer of submitted values into the document    *)
(*                                                                         *)
(* Python strings are sequences of one-character strings, so that split,   *)
(* startswith, replace, index and lower are computed as Python computes    *)
(* them.  None, True and False stored in a slot that otherwise holds a     *)
(* string are the one-element sequences NoneVal, PyTrue and PyFalse, which *)
(* no string of characters equals.  An Optional result is <<>> (None) or   *)
(* <<v>>.  A dict is a function whose DOMAIN is the set of present keys.   *)
(***************************************************************************)
EXTENDS Integers, Sequences, FiniteSets, TLC

VARIABLES pc,            \* which call has been made
          element_id,    \* parse_field_from_id: the identifier passed
          text_content,  \* parse_field_from_id: the text passed
          parsed,        \* parse_field_from_id: <<>> (None) or <<field>>
          svg,           \* the document: elements in document order, or NoDoc
          form_fields,   \* instance.form_fields
          patches,       \* the patch batch of the call
          result,        \* what the successive calls returned, in order
          field_updates, \* update_svg_from_field_updates: the submitted updates
          cache          \* django.core.cache: the entries, key to value

vars == <<pc, element_id, text_content, parsed, svg, form_fields, patches, result,
          field_updates, cache>>

----------------------------------------------------------------------------
(* Python values *)

NoneVal == <<"None">>
PyTrue  == <<"True">>
PyFalse == <<"False">>

\* bool(x) of a str-or-None-or-bool slot
Truthy(x) == x # <<>> /\ x # NoneVal /\ x # PyFalse

----------------------------------------------------------------------------
(* str methods *)

UpperChars == <<"A","B","C","D","E","F","G","H","I","J","K","L","M",
                "N","O","P","Q","R","S","T","U","V","W","X","Y","Z">>
LowerChars == <<"a","b","c","d","e","f","g","h","i","j","k","l","m",
                "n","o","p","q","r","s","t","u","v","w","x","y","z">>
Digits == <<"0","1","2","3","4","5","6","7","8","9">>

IndexIn(c, seq) == IF \E i \in 1..Len(seq) : seq[i] = c
                   THEN CHOOSE i \in 1..Len(seq) : seq[i] = c
                   ELSE 0

IsUpper(c) == IndexIn(c, UpperChars) # 0
IsLower(c) == IndexIn(c, LowerChars) # 0
IsAlpha(c) == IsUpper(c) \/ IsLower(c)
IsDigit(c) == IndexIn(c, Digits) # 0
IsSpace(c) == c \in {" ", "\n", "\t"}

LowerChar(c) == IF IsUpper(c) THEN LowerChars[IndexIn(c, UpperChars)] ELSE c
UpperChar(c) == IF IsLower(c) THEN UpperChars[IndexIn(c, LowerChars)] ELSE c

\* s.lower()
Lower(s) == [i \in 1..Len(s) |-> LowerChar(s[i])]

\* s.title()
Title(s) == [i \in 1..Len(s) |->
               IF i > 1 /\ IsAlpha(s[i-1]) THEN LowerChar(s[i]) ELSE UpperChar(s[i])]

\* s.startswith(p)
StartsWith(s, p) == Len(s) >= Len(p) /\ SubSeq(s, 1, Len(p)) = p

\* s.endswith(p)
EndsWith(s, p) == Len(s) >= Len(p) /\ SubSeq(s, Len(s) - Len(p) + 1, Len(s)) = p

\* s[i:] with a 1-based i
From(s, i) == SubSeq(s, i, Len(s))

\* s.find(sub) + 1: the 1-based place of the first occurrence, 0 when absent
Find(s, sub) ==
  LET places == {i \in 1..(Len(s) - Len(sub) + 1) : SubSeq(s, i, i + Len(sub) - 1) = sub}
  IN IF places = {} THEN 0 ELSE CHOOSE i \in places : \A j \in places : i <= j

\* sub in s
Contains(s, sub) == Find(s, sub) # 0

\* s.replace(old, new), old non-empty: every non-overlapping occurrence, left to right
RECURSIVE Replace(_, _, _)
Replace(s, old, new) ==
  LET k == Find(s, old)
  IN IF k = 0 THEN s
     ELSE SubSeq(s, 1, k - 1) \o new \o Replace(From(s, k + Len(old)), old, new)

\* s.split(sep), sep one character
RECURSIVE Split(_, _)
Split(s, sep) ==
  LET k == Find(s, <<sep>>)
  IN IF k = 0 THEN <<s>>
     ELSE <<SubSeq(s, 1, k - 1)>> \o Split(From(s, k + 1), sep)

\* s.strip()
RECURSIVE LStrip(_)
LStrip(s) == IF s # <<>> /\ IsSpace(s[1]) THEN LStrip(Tail(s)) ELSE s
RECURSIVE RStrip(_)
RStrip(s) == IF s # <<>> /\ IsSpace(s[Len(s)]) THEN RStrip(SubSeq(s, 1, Len(s) - 1)) ELSE s
Strip(s) == RStrip(LStrip(s))

\* sep.join(list)
RECURSIVE Join(_, _)
Join(sep, list) ==
  IF list = <<>> THEN <<>>
  ELSE IF Len(list) = 1 THEN list[1]
  ELSE list[1] \o sep \o Join(sep, Tail(list))

\* int(s) accepts s: decimal digits, single underscores allowed between digits
\* (signs and surrounding blanks do not occur in the identifiers modelled)
IsIntLiteral(s) ==
  /\ s # <<>>
  /\ \A i \in 1..Len(s) : IsDigit(s[i]) \/ s[i] = "_"
  /\ IsDigit(s[1]) /\ IsDigit(s[Len(s)])
  /\ \A i \in 1..(Len(s) - 1) : ~(s[i] = "_" /\ s[i+1] = "_")

RECURSIVE IntOf(_)
IntOf(s) ==
  IF s = <<>> THEN 0
  ELSE IF s[Len(s)] = "_" THEN IntOf(SubSeq(s, 1, Len(s) - 1))
  ELSE 10 * IntOf(SubSeq(s, 1, Len(s) - 1)) + (IndexIn(s[Len(s)], Digits) - 1)

\* a dict with key k set to v
Put(d, k, v) == [x \in DOMAIN d \cup {k} |-> IF x = k THEN v ELSE d[x]]

\* d.get(k), None when absent
Get(d, k) == IF k \in DOMAIN d THEN d[k] ELSE NoneVal

\* d.update(e)
Update(d, e) == [x \in DOMAIN d \cup DOMAIN e |-> IF x \in DOMAIN e THEN e[x] ELSE d[x]]

----------------------------------------------------------------------------
(* api/svg_parser.py: the extension registry *)

T_text == <<"t","e","x","t">>
T_textarea == <<"t","e","x","t","a","r","e","a">>
T_checkbox == <<"c","h","e","c","k","b","o","x">>
T_date == <<"d","a","t","e">>
T_upload == <<"u","p","l","o","a","d">>
T_number == <<"n","u","m","b","e","r">>
T_email == <<"e","m","a","i","l">>
T_tel == <<"t","e","l">>
T_gen == <<"g","e","n">>
T_password == <<"p","a","s","s","w","o","r","d">>
T_range == <<"r","a","n","g","e">>
T_color == <<"c","o","l","o","r">>
T_file == <<"f","i","l","e">>
T_status == <<"s","t","a","t","u","s">>
T_sign == <<"s","i","g","n">>
T_select == <<"s","e","l","e","c","t">>
T_hide == <<"h","i","d","e">>
T_url == <<"u","r","l">>
P_max == <<"m","a","x","_">>
P_depends == <<"d","e","p","e","n","d","s","_">>
P_track == <<"t","r","a","c","k","_">>
P_select == <<"s","e","l","e","c","t","_">>
P_link == <<".","l","i","n","k","_">>
P_date == <<"d","a","t","e","_">>
P_gen == <<"g","e","n","_">>
P_grayscale == <<"g","r","a","y","s","c","a","l","e","_">>
F_editable == <<"e","d","i","t","a","b","l","e">>
F_tracking_id == <<"t","r","a","c","k","i","n","g","_","i","d">>
F_hide_checked == <<"h","i","d","e","_","c","h","e","c","k","e","d">>
F_hide_unchecked == <<"h","i","d","e","_","u","n","c","h","e","c","k","e","d">>
F_grayscale == <<"g","r","a","y","s","c","a","l","e">>

FIELD_TYPES == {T_text, T_textarea, T_checkbox, T_date, T_upload, T_number, T_email, T_tel,
                T_gen, T_password, T_range, T_color, T_file, T_status, T_sign}

KNOWN_FIELD_TYPES == {T_text, T_textarea, T_select, T_checkbox, T_date, T_upload, T_file,
                      T_sign, T_gen, T_status, T_hide, T_number, T_range, T_color, T_email,
                      T_tel, T_url, T_password}

----------------------------------------------------------------------------
(* api/svg_parser.py: helper functions *)

\* extract_link_url(element_id) -> (cleaned_id, url)
extract_link_url(id) ==
  IF ~Contains(id, P_link) THEN [cleaned_id |-> id, url |-> NoneVal]
  ELSE [cleaned_id |-> SubSeq(id, 1, Find(id, P_link) - 1),
        url        |-> From(id, Find(id, P_link) + Len(P_link))]

\* get_extension_value(part, prefix): str.replace removes every occurrence of prefix
get_extension_value(part, prefix) == Replace(part, prefix, <<>>)

\* the index (1-based) of the first part starting with prefix, 0 when there is none
FirstWith(parts, prefix) ==
  LET at == {i \in 1..Len(parts) : StartsWith(parts[i], prefix)}
  IN IF at = {} THEN 0 ELSE CHOOSE i \in at : \A j \in at : i <= j

\* a slip: the position of the last track_ part is checked, not of the first
validate_track_position_last(parts) ==
  \A i \in 1..Len(parts) :
     (StartsWith(parts[i], P_track) /\ \A j \in (i+1)..Len(parts) : ~StartsWith(parts[j], P_track))
       => i = Len(parts)

\* validate_track_position(parts)
validate_track_position(parts) ==
  LET track_index == FirstWith(parts, P_track)
  IN IF track_index # 0 THEN track_index = Len(parts) ELSE TRUE

\* get_field_name(base_id)
get_field_name(base_id) == Title(Replace(base_id, <<"_">>, <<" ">>))

----------------------------------------------------------------------------
(* api/svg_parser.py: regular field handling *)

\* float(s) gives an infinity: int(float(s)) raises OverflowError, which is no ValueError
IsInfLiteral(s) == Lower(s) \in {<<"i","n","f">>, <<"i","n","f","i","n","i","t","y">>}

Min(a, b) == IF a < b THEN a ELSE b
Max(a, b) == IF a > b THEN a ELSE b

\* one turn of the loop of parse_field_extensions, for parts[i]
ExtensionStep(parts, i, r) ==
  LET part == parts[i] IN
  IF StartsWith(part, P_max) THEN
    LET max_content == get_extension_value(part, P_max) IN
    IF StartsWith(max_content, <<"(">>) /\ EndsWith(max_content, <<")">>)
    THEN [r EXCEPT !.max_generation = max_content]
    ELSE IF IsIntLiteral(max_content)
         THEN [r EXCEPT !.max_value = <<IntOf(max_content)>>]
         ELSE r
  ELSE IF StartsWith(part, P_depends) THEN
    [r EXCEPT !.dependency = get_extension_value(part, P_depends)]
  ELSE IF StartsWith(part, P_track) THEN
    \* parts.index(part) == len(parts) - 1
    IF (CHOOSE k \in 1..Len(parts) : parts[k] = part /\ \A j \in 1..(k-1) : parts[j] # part)
         = Len(parts)
    THEN [r EXCEPT !.tracking_role = get_extension_value(part, P_track)]
    ELSE r
  ELSE IF StartsWith(part, P_date) THEN
    [r EXCEPT !.date_format = get_extension_value(part, P_date),
              !.field_type = IF r.field_type = parts[1] THEN T_date ELSE r.field_type]
  ELSE IF StartsWith(part, P_gen) THEN
    [r EXCEPT !.generation_rule = get_extension_value(part, P_gen),
              !.field_type = IF r.field_type = parts[1] THEN T_gen ELSE r.field_type]
  ELSE IF part = F_tracking_id THEN
    [r EXCEPT !.field_type = T_gen, !.is_tracking_id = TRUE]
  ELSE IF part = F_editable THEN
    [r EXCEPT !.editable = TRUE]
  ELSE IF part = F_grayscale THEN
    [r EXCEPT !.requires_grayscale = TRUE, !.grayscale_intensity = <<100>>]
  ELSE IF StartsWith(part, P_grayscale) THEN
    LET intensity_raw == get_extension_value(part, P_grayscale) IN
    IF IsInfLiteral(intensity_raw)
    THEN [r EXCEPT !.requires_grayscale = TRUE, !.raised = TRUE]
    ELSE IF IsIntLiteral(intensity_raw)
    THEN [r EXCEPT !.requires_grayscale = TRUE,
                   !.grayscale_intensity = <<Max(0, Min(100, IntOf(intensity_raw)))>>]
    ELSE [r EXCEPT !.requires_grayscale = TRUE, !.grayscale_intensity = <<100>>]
  ELSE IF StartsWith(part, T_hide) \/ part \in FIELD_TYPES THEN
    [r EXCEPT !.field_type = IF StartsWith(part, T_hide) THEN T_hide ELSE part]
  ELSE r

RECURSIVE ExtensionLoop(_, _, _)
ExtensionLoop(parts, i, r) ==
  IF i > Len(parts) \/ r.raised THEN r
  ELSE ExtensionLoop(parts, i + 1, ExtensionStep(parts, i, r))

\* parse_field_extensions(parts); raised: the call ended in an exception
parse_field_extensions(parts) ==
  LET r0 == [field_type |-> parts[1], max_value |-> <<>>, max_generation |-> NoneVal,
             dependency |-> NoneVal, tracking_role |-> NoneVal, date_format |-> NoneVal,
             generation_rule |-> NoneVal, editable |-> FALSE, is_tracking_id |-> FALSE,
             requires_grayscale |-> FALSE, grayscale_intensity |-> <<>>, raised |-> FALSE]
      r  == ExtensionLoop(parts, 2, r0)
  IN IF ~r.raised /\ r.requires_grayscale /\ r.grayscale_intensity = <<>>
     THEN [r EXCEPT !.grayscale_intensity = <<100>>]
     ELSE r

\* get_default_value(field_type, text_content, parts)
get_default_value(field_type, text, parts) ==
  IF field_type = T_checkbox THEN PyFalse
  ELSE IF field_type = T_hide THEN
    LET k == FirstWith(parts, T_hide)
        hide_part == IF k = 0 THEN T_hide ELSE parts[k]
    IN IF hide_part = F_hide_checked THEN PyTrue ELSE PyFalse
  ELSE text

\* d with key k set to v when cond holds
PutIf(cond, d, k, v) == IF cond THEN Put(d, k, v) ELSE d

\* create_regular_field(base_id, element_id, extensions, default_value, url, helper_text)
create_regular_field(base_id, id, extensions, default_value, url, helper_text) ==
  LET f0 == [id |-> base_id, name |-> get_field_name(base_id),
             type |-> extensions.field_type, svgElementId |-> id,
             defaultValue |-> default_value, currentValue |-> default_value,
             isTrackingId |-> extensions.is_tracking_id, editable |-> extensions.editable]
      f1 == PutIf(Truthy(extensions.tracking_role), f0, "trackingRole", extensions.tracking_role)
      f2 == PutIf(extensions.max_value # <<>>, f1, "max", extensions.max_value)
      f3 == PutIf(Truthy(extensions.dependency), f2, "dependsOn", extensions.dependency)
      f4 == PutIf(Truthy(extensions.date_format), f3, "dateFormat", extensions.date_format)
      f5 == PutIf(Truthy(extensions.generation_rule), f4, "generationRule",
                  extensions.generation_rule)
      f6 == PutIf(Truthy(extensions.max_generation), f5, "maxGeneration",
                  extensions.max_generation)
      f7 == PutIf(Truthy(url), f6, "link", url)
      f8 == PutIf(Truthy(helper_text), f7, "helperText", helper_text)
      f9 == PutIf(extensions.requires_grayscale, f8, "requiresGrayscale", TRUE)
  IN PutIf(extensions.requires_grayscale, f9, "grayscaleIntensity",
           extensions.grayscale_intensity)

----------------------------------------------------------------------------
(* api/svg_parser.py: the id-only field parser *)

\* any(p.startswith("select_") for p in parts)
HasSelectPart(parts) == \E i \in 1..Len(parts) : StartsWith(parts[i], P_select)

\* a slip: the link-stripped identifier is stored as the field's element id
FieldElementIdCleaned(id, cleaned_id) == cleaned_id

\* parse_field_from_id, line 386: element_id=element_id, not the cleaned id
FieldElementId(id, cleaned_id) == id

\* lines 379-391: an unknown type becomes text, and the field is created
FieldFromExtensions(id, text, link, parts, extensions) ==
  IF extensions.raised THEN <<>>
  ELSE <<create_regular_field(parts[1], FieldElementId(id, link.cleaned_id), extensions,
            get_default_value(extensions.field_type, text, parts), link.url, NoneVal)>>

\* lines 379-380: extensions with the type normalised
NormalizeType(extensions) ==
  IF extensions.field_type \notin KNOWN_FIELD_TYPES
  THEN [extensions EXCEPT !.field_type = T_text] ELSE extensions

\* lines 368-391: the link-stripped identifier is split and parsed
FieldFromParts(id, text, link, parts) ==
  IF parts[1] = <<>> THEN <<>>
  ELSE IF ~validate_track_position(parts) THEN <<>>
  ELSE FieldFromExtensions(id, text, link, parts,
                           NormalizeType(parse_field_extensions(parts)))

\* lines 366-391
FieldFromLink(id, text, link) == FieldFromParts(id, text, link, Split(link.cleaned_id, "."))

\* parse_field_from_id(element_id, text_content): <<>> for None, else <<field>>
parse_field_from_id(id, text) ==
  IF id = <<>> THEN <<>>
  ELSE IF HasSelectPart(Split(id, ".")) THEN <<>>
  ELSE FieldFromLink(id, text, extract_link_url(id))

----------------------------------------------------------------------------
(* The identifiers and texts the calls are made with *)

\* the most extension parts after the base id of an identifier
MaxExt == 2

BaseIds == {<<>>, <<"N">>, <<"C","o">>, T_date}

ExtParts ==
  { P_track \o <<"x">>,
    P_max \o <<"5">>,
    P_gen \o <<"(","r",")">>,
    P_gen \o <<"A","U","T","O",":","(","r",")">>,
    P_gen \o <<"r","e">> \o P_gen \o <<"(","r",")">>,
    <<"l","i","n","k","_","u">>,
    P_select \o <<"a">>,
    F_editable,
    F_tracking_id,
    F_hide_checked,
    T_upload,
    P_date \o <<"M">>,
    P_grayscale \o <<"i","n","f">> }

Texts == {<<>>, <<"T">>}

Ids == {Join(<<".">>, <<b>> \o e) :
          b \in BaseIds, e \in UNION {[1..k -> ExtParts] : k \in 0..MaxExt}}

Idle == <<>>

----------------------------------------------------------------------------
(* Specification of the id-only parser: one call on every identifier and text *)

InitParse ==
  /\ field_updates = Idle /\ cache = Idle
  /\ pc = "parse"
  /\ element_id \in Ids
  /\ text_content \in Texts
  /\ parsed = <<>>
  /\ svg = Idle /\ form_fields = Idle /\ patches = Idle /\ result = Idle

ParseFieldFromId ==
  /\ pc = "parse"
  /\ parsed' = parse_field_from_id(element_id, text_content)
  /\ pc' = "parsed"
  /\ UNCHANGED <<element_id, text_content, svg, form_fields, patches, result, field_updates, cache>>

NextParse == ParseFieldFromId

SpecParse == InitParse /\ [][NextParse]_vars

----------------------------------------------------------------------------
(* Claims about the id-only parser, checked under SpecParse *)

\* the dot-separated segments of the identifier after link extraction
SegmentsOf(id) ==
  Split(IF Contains(id, P_link) THEN SubSeq(id, 1, Find(id, P_link) - 1) ELSE id, ".")

\* the places of the segments that start with track_
TrackPlaces(id) == {i \in 1..Len(SegmentsOf(id)) : StartsWith(SegmentsOf(id)[i], P_track)}

\* a ground of rejection other than the place of track_: an empty identifier or base
\* id, a select_ part anywhere in the identifier, or an intensity no int() can hold
OtherGround(id) ==
  \/ id = <<>>
  \/ SegmentsOf(id)[1] = <<>>
  \/ \E i \in 1..Len(Split(id, ".")) : StartsWith(Split(id, ".")[i], P_select)
  \/ \E i \in 2..Len(SegmentsOf(id)) : SegmentsOf(id)[i] = P_grayscale \o <<"i","n","f">>

\* C7: every field parse_field_from_id returns for an identifier s, with or without
\* a .link_ URL, has svgElementId exactly s.
C7_IdentityRoundTrip ==
  (pc = "parsed" /\ parsed # <<>>) => parsed[1].svgElementId = element_id

\* C7 witness: a field was returned for an identifier that carries a .link_ URL
C7_Witness ==
  /\ pc = "parsed" /\ parsed # <<>>
  /\ Contains(element_id, P_link)
  /\ "link" \in DOMAIN parsed[1]

\* C8: an identifier with a track_ segment anywhere but last (after link extraction)
\* is rejected, and one whose only track_ segment is the last is not rejected unless
\* another ground of rejection applies.
C8_TrackMustBeLast ==
  pc = "parsed" =>
    /\ (\E i \in TrackPlaces(element_id) : i # Len(SegmentsOf(element_id))) => parsed = <<>>
    /\ (TrackPlaces(element_id) = {Len(SegmentsOf(element_id))} /\ ~OtherGround(element_id))
          => parsed # <<>>

\* C8 witness: an identifier is rejected only for a track_ segment that is not last,
\* a later track_ segment being last
C8_Witness ==
  /\ pc = "parsed" /\ parsed = <<>>
  /\ ~OtherGround(element_id)
  /\ Cardinality(TrackPlaces(element_id)) = 2
  /\ Len(SegmentsOf(element_id)) \in TrackPlaces(element_id)

\* the extension segments (after the base id) that start with gen_
GenPlaces(id) == {i \in 2..Len(SegmentsOf(id)) : StartsWith(SegmentsOf(id)[i], P_gen)}

\* the generation rule a field carries, the empty string when it carries none
RuleOf(f) == IF "generationRule" \in DOMAIN f THEN f.generationRule ELSE <<>>

\* C9: the generation rule of a field parsed from an identifier with one gen_ part is
\* that part with only its leading "gen_" removed, the rest verbatim.
C9_GenRuleVerbatim ==
  (pc = "parsed" /\ parsed # <<>> /\ Cardinality(GenPlaces(element_id)) = 1) =>
     LET part == SegmentsOf(element_id)[CHOOSE i \in GenPlaces(element_id) : TRUE]
     IN RuleOf(parsed[1]) = From(part, Len(P_gen) + 1)

----------------------------------------------------------------------------
(* api/svg_utils.py: merge_svg_patches *)

\* A patch is a dict with keys among id, attribute, value.  A value that is a string
\* s is held as [s |-> s]; a reorder directive is the dict [afterId, beforeId].
SVal(s) == [s |-> s]

A_innerText == <<"i","n","n","e","r","T","e","x","t">>
A_reorder   == <<"r","e","o","r","d","e","r">>
A_id        == <<"i","d">>
A_fill      == <<"f","i","l","l">>

\* the (id, attribute) key of a patch
PatchKey(patch) == <<Get(patch, "id"), Get(patch, "attribute")>>

\* the members of a set of places, in increasing order
Ascending(S) ==
  [k \in 1..Cardinality(S) |-> CHOOSE i \in S : Cardinality({j \in S : j < i}) = k - 1]

\* a slip: the patches are scanned from the end to let the last one win, and the
\* survivors are returned in that reversed order
merge_svg_patches_reversed(P) ==
  LET IsReorder(i) == Get(P[i], "attribute") = A_reorder
      Keyed(i)     == ~IsReorder(i) /\ Truthy(PatchKey(P[i])[1]) /\ Truthy(PatchKey(P[i])[2])
      Last(i)      == Keyed(i) /\ \A j \in (i+1)..Len(P) : ~(Keyed(j) /\ PatchKey(P[j]) = PatchKey(P[i]))
      lasts        == Ascending({i \in 1..Len(P) : Last(i)})
      reorders     == Ascending({i \in 1..Len(P) : IsReorder(i)})
  IN [k \in 1..Len(lasts) |-> P[lasts[Len(lasts) + 1 - k]]]
       \o [k \in 1..Len(reorders) |-> P[reorders[k]]]

\* a slip: the first patch of a key wins (the key is not reassigned once set)
merge_svg_patches_first_wins(P) ==
  LET IsReorder(i) == Get(P[i], "attribute") = A_reorder
      Keyed(i)     == ~IsReorder(i) /\ Truthy(PatchKey(P[i])[1]) /\ Truthy(PatchKey(P[i])[2])
      First(i)     == Keyed(i) /\ \A j \in 1..(i-1) : ~(Keyed(j) /\ PatchKey(P[j]) = PatchKey(P[i]))
      firsts       == Ascending({i \in 1..Len(P) : First(i)})
      reorders     == Ascending({i \in 1..Len(P) : IsReorder(i)})
  IN [k \in 1..Len(firsts) |-> P[firsts[k]]]
       \o [k \in 1..Len(reorders) |-> P[reorders[k]]]

\* merge_svg_patches(patches): a dict keeps a key at the place of its first insertion
\* and holds the value of its last assignment
merge_svg_patches(P) ==
  LET IsReorder(i) == Get(P[i], "attribute") = A_reorder
      Keyed(i)     == ~IsReorder(i) /\ Truthy(PatchKey(P[i])[1]) /\ Truthy(PatchKey(P[i])[2])
      First(i)     == Keyed(i) /\ \A j \in 1..(i-1) : ~(Keyed(j) /\ PatchKey(P[j]) = PatchKey(P[i]))
      LastOf(i)    == CHOOSE j \in i..Len(P) :
                        /\ Keyed(j) /\ PatchKey(P[j]) = PatchKey(P[i])
                        /\ \A k \in (j+1)..Len(P) : ~(Keyed(k) /\ PatchKey(P[k]) = PatchKey(P[i]))
      firsts       == Ascending({i \in 1..Len(P) : First(i)})
      reorders     == Ascending({i \in 1..Len(P) : IsReorder(i)})
  IN [k \in 1..Len(firsts) |-> P[LastOf(firsts[k])]]
       \o [k \in 1..Len(reorders) |-> P[reorders[k]]]

----------------------------------------------------------------------------
(* Specification of the merge: the log is merged, and the merged log merged again *)

\* the most patches in a patch list handed to merge_svg_patches
MaxPatches == 3

E_a == <<"a">>
E_b == <<"b">>
V_1 == <<"1">>
V_2 == <<"2">>

MergePatches ==
  { [id |-> i, attribute |-> A_fill, value |-> SVal(v)] : i \in {E_a, E_b}, v \in {V_1, V_2} }
  \cup { [id |-> E_a, attribute |-> A_reorder, value |-> [afterId |-> E_b]],
         [id |-> E_b, attribute |-> A_reorder, value |-> [beforeId |-> E_a]],
         [attribute |-> A_reorder, value |-> [afterId |-> E_b]],
         [attribute |-> A_fill, value |-> SVal(V_1)],
         [id |-> <<>>, attribute |-> A_fill, value |-> SVal(V_2)],
         [id |-> E_a, value |-> SVal(V_1)] }

InitMerge ==
  /\ field_updates = Idle /\ cache = Idle
  /\ pc = "merge"
  /\ patches \in UNION {[1..n -> MergePatches] : n \in 0..MaxPatches}
  /\ result = <<>>
  /\ element_id = Idle /\ text_content = Idle /\ parsed = Idle
  /\ svg = Idle /\ form_fields = Idle

\* instance.svg_patches = merge_svg_patches(existing + svg_patch_data)
MergeSvgPatches ==
  /\ pc = "merge"
  /\ result' = <<merge_svg_patches(patches)>>
  /\ pc' = "merged"
  /\ UNCHANGED <<element_id, text_content, parsed, svg, form_fields, patches, field_updates, cache>>

\* the merged log goes through merge_svg_patches again on the next save
MergeAgain ==
  /\ pc = "merged"
  /\ result' = Append(result, merge_svg_patches(result[1]))
  /\ pc' = "merged twice"
  /\ UNCHANGED <<element_id, text_content, parsed, svg, form_fields, patches, field_updates, cache>>

NextMerge == MergeSvgPatches \/ MergeAgain

SpecMerge == InitMerge /\ [][NextMerge]_vars

----------------------------------------------------------------------------
(* Claims about merge_svg_patches, checked under SpecMerge *)

\* the sub-list of the reorder patches of list
ReordersOf(list) ==
  LET IsReorder(i) == Get(list[i], "attribute") = A_reorder
      at == Ascending({i \in 1..Len(list) : IsReorder(i)})
  IN [k \in 1..Len(at) |-> list[at[k]]]

\* the non-reorder (id, attribute) pairs of list: every such pair, and those whose
\* id and attribute are both present and non-empty
PairsOf(list) ==
  {PatchKey(list[i]) : i \in {j \in 1..Len(list) : Get(list[j], "attribute") # A_reorder}}
FullPairsOf(list) == {k \in PairsOf(list) : Truthy(k[1]) /\ Truthy(k[2])}

\* merged holds, for the pair key, exactly one patch, the last patch of P with that key
OneLast(P, merged, key) ==
  /\ Cardinality({i \in 1..Len(merged) : PatchKey(merged[i]) = key}) = 1
  /\ \E i \in 1..Len(P) :
       /\ PatchKey(P[i]) = key
       /\ \A j \in (i+1)..Len(P) : PatchKey(P[j]) # key
       /\ \E m \in 1..Len(merged) : merged[m] = P[i] /\ PatchKey(merged[m]) = key

\* C4: merging a merged list returns the same ordered list.
C4_MergeIdempotent ==
  pc = "merged twice" => result[2] = result[1]

\* C4 witness: the first merge dropped a superseded patch and kept a reorder patch,
\* and the list was merged again
C4_Witness ==
  /\ pc = "merged twice"
  /\ Len(result[1]) < Len(patches)
  /\ Len(result[1]) >= 2
  /\ ReordersOf(result[1]) # <<>>
  /\ \E i \in 1..Len(patches) : Get(patches[i], "id") = NoneVal

\* C5 as stated: every non-reorder (id, attribute) pair of P, whatever its id and
\* attribute, has exactly one patch in the merged list, the last of P; every reorder
\* patch is kept in order.
C5_MergeEveryPair ==
  pc = "merged" =>
    /\ \A key \in PairsOf(patches) : OneLast(patches, result[1], key)
    /\ ReordersOf(result[1]) = ReordersOf(patches)

\* C5 amended: every non-reorder pair of P whose id and attribute are both present
\* and non-empty has exactly one patch in the merged list, the last of P with that
\* pair; patches lacking either are dropped; every reorder patch is kept, in the
\* order of P, after the others.
C5_MergeInvariant ==
  pc = "merged" =>
    /\ \A key \in FullPairsOf(patches) : OneLast(patches, result[1], key)
    /\ PairsOf(result[1]) = FullPairsOf(patches)
    /\ ReordersOf(result[1]) = ReordersOf(patches)
    /\ Len(result[1]) = Cardinality(FullPairsOf(patches)) + Len(ReordersOf(patches))

\* C5 witness: P holds two patches of one pair with different values, and a reorder
\* patch between them
C5_Witness ==
  /\ pc = "merged"
  /\ \E i, j, k \in 1..Len(patches) :
       /\ i < k /\ k < j
       /\ PatchKey(patches[i]) = PatchKey(patches[j])
       /\ patches[i] # patches[j]
       /\ PatchKey(patches[i]) \in FullPairsOf(patches)
       /\ Get(patches[k], "attribute") = A_reorder

----------------------------------------------------------------------------
(* api/svg_parser.py: the field model builder *)

\* An element is [attrib, text, children]: attrib a dict from attribute names to
\* strings, text a string or None, children the sub-elements as [text, tail].
\* bool(element) is len(element) != 0 in xml.etree.ElementTree.
K_id         == <<"i","d">>
K_opacity    == <<"o","p","a","c","i","t","y">>
K_visibility == <<"v","i","s","i","b","i","l","i","t","y">>
K_display    == <<"d","i","s","p","l","a","y">>
K_helper     == <<"d","a","t","a","-","h","e","l","p","e","r">>
W_hidden     == <<"h","i","d","d","e","n">>
W_none       == <<"n","o","n","e">>
W_visible    == <<"v","i","s","i","b","l","e">>

\* element.attrib.get(k, default)
Attr(element, k, default) ==
  IF k \in DOMAIN element.attrib THEN element.attrib[k] ELSE default

\* is_element_visible(element)
is_element_visible(element) ==
  ~( \/ Attr(element, K_opacity, <<"1">>) = <<"0">>
     \/ Attr(element, K_visibility, W_visible) = W_hidden
     \/ Attr(element, K_display, <<>>) = W_none )

\* x.strip() when x is a string with something but blanks in it, else nothing
TextPart(x) == IF x # NoneVal /\ Strip(x) # <<>> THEN <<Strip(x)>> ELSE <<>>

RECURSIVE ChildTextParts(_)
ChildTextParts(children) ==
  IF children = <<>> THEN <<>>
  ELSE TextPart(children[1].text) \o TextPart(children[1].tail)
         \o ChildTextParts(Tail(children))

\* process_element_to_field, lines 439-450: the text of the element and of its
\* children, newline-joined
ElementText(element) ==
  Join(<<"\n">>, TextPart(element.text) \o ChildTextParts(element.children))

\* create_select_option(element_id, element, parts)
create_select_option(id, element, parts) ==
  LET select_part == parts[FirstWith(parts, P_select)]
      label       == Replace(get_extension_value(select_part, P_select), <<"_">>, <<" ">>)
      option_text == IF element.text = NoneVal THEN <<>> ELSE Strip(element.text)
  IN [value |-> id, label |-> label, svgElementId |-> id,
      displayText |-> IF option_text # <<>> THEN option_text ELSE label]

\* extract_select_modifiers(parts)
extract_select_modifiers(parts) ==
  [tracking_role |-> IF FirstWith(parts, P_track) # 0
                     THEN get_extension_value(parts[FirstWith(parts, P_track)], P_track)
                     ELSE NoneVal,
   editable |-> \E i \in 1..Len(parts) : parts[i] = F_editable]

\* create_select_field(base_id, element_id, editable)
create_select_field(base_id, id, editable) ==
  [id |-> base_id, name |-> get_field_name(base_id), type |-> T_select,
   svgElementId |-> id, options |-> <<>>, defaultValue |-> <<>>, currentValue |-> <<>>,
   editable |-> editable]

\* a slip: a visible option is the current value only while the field has none
update_select_field_first_visible(field, option, is_visible, modifiers) ==
  LET f1 == IF is_visible /\ ~Truthy(Get(field, "currentValue"))
            THEN Put(field, "currentValue", option.value) ELSE field
      f2 == IF ~Truthy(Get(f1, "defaultValue")) /\ f1.options # <<>>
            THEN Put(f1, "defaultValue", f1.options[1].value) ELSE f1
      f3 == IF Truthy(modifiers.tracking_role)
            THEN Put(f2, "trackingRole", modifiers.tracking_role) ELSE f2
  IN IF modifiers.editable THEN Put(f3, "editable", TRUE) ELSE f3

\* update_select_field(field, option, is_visible, modifiers), field["options"] set
update_select_field(field, option, is_visible, modifiers) ==
  LET f1 == IF is_visible THEN Put(field, "currentValue", option.value) ELSE field
      f2 == IF ~Truthy(Get(f1, "defaultValue")) /\ f1.options # <<>>
            THEN Put(f1, "defaultValue", f1.options[1].value) ELSE f1
      f3 == IF Truthy(modifiers.tracking_role)
            THEN Put(f2, "trackingRole", modifiers.tracking_role) ELSE f2
  IN IF modifiers.editable THEN Put(f3, "editable", TRUE) ELSE f3

\* the place of the first field of the list whose key k holds v, 0 when none does
FirstField(fields, k, v) ==
  LET at == {i \in 1..Len(fields) : Get(fields[i], k) = v}
  IN IF at = {} THEN 0 ELSE CHOOSE i \in at : \A j \in at : i <= j

\* lines 475-480: the first field with the base id takes the options and modifiers
SelectFieldsUpdated(fields1, base_id, options, option, visible, modifiers, k) ==
  IF k = 0 THEN fields1
  ELSE [fields1 EXCEPT ![k] =
          update_select_field(Put(fields1[k], "options", options), option, visible, modifiers)]

\* lines 466-482: the option joins the options of its base id
SelectProcessed(st, base_id, id, option, visible, modifiers, isNew, fields1, options) ==
  [st EXCEPT
     !.fields = SelectFieldsUpdated(fields1, base_id, options, option, visible, modifiers,
                                    FirstField(fields1, "id", base_id)),
     !.select_map = [b \in DOMAIN st.select_map \cup {base_id} |->
                       IF b = base_id THEN options ELSE st.select_map[b]]]

\* lines 462-482: an element whose identifier has a select_ part
ProcessSelect(element, st, id, parts, modifiers) ==
  SelectProcessed(st, parts[1], id, create_select_option(id, element, parts),
     is_element_visible(element), modifiers,
     parts[1] \notin DOMAIN st.select_map,
     IF parts[1] \notin DOMAIN st.select_map
     THEN Append(st.fields, create_select_field(parts[1], id, modifiers.editable))
     ELSE st.fields,
     (IF parts[1] \notin DOMAIN st.select_map THEN <<>> ELSE st.select_map[parts[1]])
        \o <<create_select_option(id, element, parts)>>)

\* lines 493-511: a regular element, its extensions parsed
ProcessRegular(element, st, id, link, parts, extensions) ==
  IF extensions.raised THEN [st EXCEPT !.raised = TRUE]
  ELSE [st EXCEPT !.fields = Append(st.fields,
          create_regular_field(parts[1], id, extensions,
             get_default_value(extensions.field_type, ElementText(element), parts),
             link.url, Attr(element, K_helper, <<>>)))]

\* lines 456-511
ProcessParts(element, st, id, link, parts) ==
  IF HasSelectPart(parts) THEN ProcessSelect(element, st, id, parts, extract_select_modifiers(parts))
  ELSE IF ~validate_track_position(parts) THEN st
  ELSE ProcessRegular(element, st, id, link, parts, parse_field_extensions(parts))

\* lines 453-511
ProcessLink(element, st, id, link) ==
  ProcessParts(element, st, id, link, Split(link.cleaned_id, "."))

\* process_element_to_field(element, fields_list, select_options_map), with
\* st = [fields, select_map, raised]; raised: the call ended in an exception
process_element_to_field(element, st) ==
  IF st.raised \/ Attr(element, K_id, <<>>) = <<>> THEN st
  ELSE ProcessLink(element, st, Attr(element, K_id, <<>>),
                   extract_link_url(Attr(element, K_id, <<>>)))

\* the state process_element_to_field starts from: no field, no select option
NoFields == [fields |-> <<>>, select_map |-> <<>>, raised |-> FALSE]

RECURSIVE ProcessElements(_, _)
ProcessElements(elements, st) ==
  IF elements = <<>> THEN st
  ELSE ProcessElements(Tail(elements), process_element_to_field(elements[1], st))

\* parse_svg_to_form_fields(svg_text), the document being the elements with an id
\* below the root, in document order
parse_svg_to_form_fields(doc) == ProcessElements(doc, NoFields).fields

----------------------------------------------------------------------------
(* api/svg_sync.py: sync_form_fields_with_patches *)

\* list.pop(i), i a place of the list
Remove(list, i) == SubSeq(list, 1, i - 1) \o SubSeq(list, i + 1, Len(list))

\* a dict held as its entries [key, val] in insertion order: d[key] = val
DictSet(entries, key, val) ==
  IF \E i \in 1..Len(entries) : entries[i].key = key
  THEN [i \in 1..Len(entries) |->
          IF entries[i].key = key THEN [key |-> key, val |-> val] ELSE entries[i]]
  ELSE Append(entries, [key |-> key, val |-> val])

\* d.get(key): <<>> for None, else <<val>>
DictGet(entries, key) ==
  IF \E i \in 1..Len(entries) : entries[i].key = key
  THEN <<(CHOOSE e \in {entries[i] : i \in 1..Len(entries)} : e.key = key).val>>
  ELSE <<>>

\* lines 36-39: the options of field i are entered as (i, option value)
RECURSIVE MapOptions(_, _, _)
MapOptions(entries, i, options) ==
  IF options = <<>> THEN entries
  ELSE MapOptions(
         IF Truthy(Get(options[1], "svgElementId"))
         THEN DictSet(entries, options[1].svgElementId,
                      [field |-> i, opt |-> <<Get(options[1], "value")>>])
         ELSE entries,
         i, Tail(options))

\* lines 28-39: element_id_map, from svgElementId to a field index or to
\* (field index, option value); index i is the 1-based place in the list
RECURSIVE ElementIdMap(_, _, _)
ElementIdMap(fields, i, entries) ==
  IF i > Len(fields) THEN entries
  ELSE LET e1 == IF Truthy(Get(fields[i], "svgElementId"))
                 THEN DictSet(entries, fields[i].svgElementId, [field |-> i, opt |-> <<>>])
                 ELSE entries
           e2 == IF Get(fields[i], "type") = T_select /\ "options" \in DOMAIN fields[i]
                 THEN MapOptions(e1, i, fields[i].options)
                 ELSE e1
       IN ElementIdMap(fields, i + 1, e2)

\* lines 44-64: elements_with_ids, the last element of each id; empty when no patch
\* changes an id or when the instance has no document
ElementsWithIds(doc, batch) ==
  IF doc = <<>> \/ ~\E i \in 1..Len(batch) : Get(batch[i], "attribute") = A_id
  THEN <<>>
  ELSE LET els == doc[1]
           ids == {Attr(els[i], K_id, <<>>) : i \in 1..Len(els)} \ {<<>>}
       IN [x \in ids |-> els[CHOOSE i \in 1..Len(els) :
                                 /\ Attr(els[i], K_id, <<>>) = x
                                 /\ \A j \in (i+1)..Len(els) : Attr(els[j], K_id, <<>>) # x]]

\* the string a patch value holds, None when the value is missing or no string
StrOf(patch) ==
  IF "value" \in DOMAIN patch /\ "s" \in DOMAIN patch.value THEN patch.value.s ELSE NoneVal

\* a slip: the lookup is exact only, without the case-insensitive fallback
MatchIdxExact(entries, p_id) == DictGet(entries, p_id)

\* lines 78-87: the entry of p_id, or else of the first key equal to it in lower case
MatchIdx(entries, p_id) ==
  IF DictGet(entries, p_id) # <<>> THEN DictGet(entries, p_id)
  ELSE LET at == {i \in 1..Len(entries) : Lower(entries[i].key) = Lower(p_id)}
       IN IF at = {} THEN <<>>
          ELSE <<entries[CHOOSE i \in at : \A j \in at : i <= j].val>>

\* lines 94-99: the options whose value is opt_val take the text
SetOptionText(options, opt_val, p_val) ==
  [j \in 1..Len(options) |->
     IF Get(options[j], "value") = opt_val
     THEN Put(Put(options[j], "displayText", p_val), "label", p_val)
     ELSE options[j]]

\* lines 89-106: the matched field, or the matched option of it, takes the text
SyncMatched(st, p_val, i, opt) ==
  IF opt # <<>>
  THEN IF \E j \in 1..Len(Get(st.fields[i], "options")) :
             "options" \in DOMAIN st.fields[i]
             /\ Get(st.fields[i].options[j], "value") = opt[1]
       THEN [st EXCEPT !.fields[i] =
               Put(@, "options", SetOptionText(@.options, opt[1], p_val)),
             !.modified = TRUE]
       ELSE st
  ELSE [st EXCEPT !.fields[i] = Put(Put(@, "defaultValue", p_val), "currentValue", p_val),
                  !.modified = TRUE]

\* lines 89-108
SyncMatch(st, p_val, match_idx) ==
  IF match_idx = <<>> THEN st
  ELSE IF match_idx[1].field > Len(st.fields) THEN [st EXCEPT !.raised = TRUE]
  ELSE SyncMatched(st, p_val, match_idx[1].field, match_idx[1].opt)

\* lines 76-108: an innerText patch
SyncInnerText(st, p_id, p_val, element_id_map) ==
  SyncMatch(st, p_val, MatchIdx(element_id_map, p_id))

\* line 117: elements_with_ids.get(new_id) or elements_with_ids.get(old_id); an
\* element without children is false
FindElement(elements_with_ids, old_id, new_id) ==
  IF new_id \in DOMAIN elements_with_ids /\ elements_with_ids[new_id].children # <<>>
  THEN <<elements_with_ids[new_id]>>
  ELSE IF old_id \in DOMAIN elements_with_ids THEN <<elements_with_ids[old_id]>>
  ELSE <<>>

\* lines 144-173: the element parsed to a select option
SyncSelectOption(st, new_field_data, old_id, new_id, orig, target) ==
  LET new_opt == new_field_data.options[1] IN
  IF target # 0 THEN
    LET field   == st.fields[target]
        options == IF "options" \in DOMAIN field THEN field.options ELSE <<>>
        at      == {j \in 1..Len(options) :
                      Get(options[j], "svgElementId") \in {old_id, new_id}}
        options1 == IF at # {}
                    THEN [options EXCEPT ![CHOOSE j \in at : \A k \in at : j <= k] = new_opt]
                    ELSE Append(options, new_opt)
        fields1 == [st.fields EXCEPT ![target] = Put(field, "options", options1)]
    IN [st EXCEPT !.fields = IF orig # 0 /\ orig # target THEN Remove(fields1, orig)
                             ELSE fields1,
                  !.modified = TRUE]
  ELSE [st EXCEPT !.fields = Append(st.fields, new_field_data), !.modified = TRUE]

\* lines 130-183: the element parsed to a field; orig owns old_id, target has the id
SyncPlaced(st, new_field_data, old_id, new_id, orig, target) ==
  IF new_field_data.type = T_select
  THEN SyncSelectOption(st, new_field_data, old_id, new_id, orig, target)
  ELSE IF orig # 0
       THEN [st EXCEPT !.fields[orig] = Update(st.fields[orig], new_field_data),
                       !.modified = TRUE]
       ELSE [st EXCEPT !.fields = Append(st.fields, new_field_data), !.modified = TRUE]

\* a slip: the field is removed without the change being flagged
SyncRemovedUnflagged(st, idx) ==
  IF idx = <<>> \/ idx[1].opt # <<>> THEN st
  ELSE IF idx[1].field > Len(st.fields) THEN [st EXCEPT !.raised = TRUE]
  ELSE [st EXCEPT !.fields = Remove(st.fields, idx[1].field)]

\* lines 184-191: the element is no field any more
SyncRemoved(st, idx) ==
  IF idx = <<>> \/ idx[1].opt # <<>> THEN st
  ELSE IF idx[1].field > Len(st.fields) THEN [st EXCEPT !.raised = TRUE]
  ELSE [st EXCEPT !.fields = Remove(st.fields, idx[1].field), !.modified = TRUE]

\* lines 126-191: t is what process_element_to_field made of the element
SyncParsed(st, old_id, new_id, element_id_map, t) ==
  IF t.raised THEN [st EXCEPT !.raised = TRUE]
  ELSE IF t.fields # <<>>
       THEN SyncPlaced(st, t.fields[1], old_id, new_id,
                       FirstField(st.fields, "svgElementId", old_id),
                       FirstField(st.fields, "id", t.fields[1].id))
       ELSE SyncRemoved(st, DictGet(element_id_map, old_id))

\* lines 120-191
SyncElement(st, old_id, new_id, element_id_map, element) ==
  IF element = <<>> THEN st
  ELSE SyncParsed(st, old_id, new_id, element_id_map,
                  process_element_to_field(element[1], NoFields))

\* lines 111-191: an id patch, the instance's document having elements with ids
SyncIdChange(st, old_id, new_id, element_id_map, elements_with_ids) ==
  SyncElement(st, old_id, new_id, element_id_map,
              FindElement(elements_with_ids, old_id, new_id))

\* lines 66-191: one turn of the loop over the patches
SyncPatch(st, patch, element_id_map, elements_with_ids) ==
  IF st.raised \/ ~Truthy(Get(patch, "id")) THEN st
  ELSE IF Get(patch, "attribute") = A_innerText
       THEN SyncInnerText(st, patch.id, StrOf(patch), element_id_map)
  ELSE IF Get(patch, "attribute") = A_id /\ DOMAIN elements_with_ids # {}
       THEN SyncIdChange(st, patch.id, StrOf(patch), element_id_map, elements_with_ids)
  ELSE st

RECURSIVE SyncLoop(_, _, _, _)
SyncLoop(st, batch, element_id_map, elements_with_ids) ==
  IF batch = <<>> THEN st
  ELSE SyncLoop(SyncPatch(st, batch[1], element_id_map, elements_with_ids),
                Tail(batch), element_id_map, elements_with_ids)

\* sync_form_fields_with_patches(instance, patches) -> (fields, modified); raised:
\* the call ended in an exception.  doc is <<>> when the instance has no document.
sync_form_fields_with_patches(fields, doc, batch) ==
  IF batch = <<>> THEN [fields |-> fields, modified |-> FALSE, raised |-> FALSE]
  ELSE SyncLoop([fields |-> fields, modified |-> FALSE, raised |-> FALSE], batch,
                ElementIdMap(fields, 1, <<>>), ElementsWithIds(doc, batch))

----------------------------------------------------------------------------
(* Specification of the sync: an instance whose fields were built from its      *)
(* document takes submitted values, has its document replaced or lost, and then *)
(* syncs one patch batch                                                        *)

\* the most patches in a batch handed to sync_form_fields_with_patches
MaxBatch == 2

I_N       == <<"N">>
I_n       == <<"n">>
I_M       == <<"M">>
I_N_max   == I_N \o <<".">> \o P_max \o <<"5">>
I_N_track == I_N \o <<".">> \o P_track \o <<"x">> \o <<".">> \o P_max \o <<"5">>
I_S_a     == <<"S",".">> \o P_select \o <<"a">>
I_S_b     == <<"S",".">> \o P_select \o <<"b">>
X_T       == <<"T">>
X_K       == <<"K">>
X_V       == <<"V">>
X_Alice   == <<"A","l","i","c","e">>

\* <text id=...>text</text>, and the same with one <tspan>K</tspan> in it
Leaf(id, text)   == [attrib |-> (K_id :> id), text |-> text, children |-> <<>>]
Spans(id, text)  == [attrib |-> (K_id :> id), text |-> text,
                     children |-> <<[text |-> X_K, tail |-> NoneVal]>>]
Hidden(id, text) == [attrib |-> (K_id :> id) @@ (K_opacity :> <<"0">>),
                     text |-> text, children |-> <<>>]

SyncDocs ==
  { <<Leaf(I_N, X_T), Leaf(I_M, <<>>)>>,
    <<Spans(I_N, X_T), Leaf(I_M, <<>>)>>,
    <<Leaf(I_N_max, X_T), Leaf(I_M, <<>>)>>,
    <<Spans(I_N_max, X_T), Leaf(I_M, <<>>)>>,
    <<Spans(I_N_track, X_T), Leaf(I_M, <<>>)>>,
    <<Leaf(I_S_a, <<"A">>), Hidden(I_S_b, <<"B">>), Leaf(I_N, X_T)>> }

SyncPatches ==
  { [id |-> I_N,   attribute |-> A_innerText, value |-> SVal(X_V)],
    [id |-> I_n,   attribute |-> A_innerText, value |-> SVal(X_V)],
    [id |-> I_S_b, attribute |-> A_innerText, value |-> SVal(X_V)],
    [id |-> I_M,   attribute |-> A_innerText, value |-> SVal(X_V)],
    [id |-> I_N_max, attribute |-> A_innerText, value |-> SVal(X_V)],
    [id |-> I_N,     attribute |-> A_id, value |-> SVal(I_N_max)],
    [id |-> I_N_max, attribute |-> A_id, value |-> SVal(I_N)],
    [id |-> I_N,     attribute |-> A_id, value |-> SVal(I_N_track)],
    [id |-> I_M,     attribute |-> A_fill, value |-> SVal(X_V)] }

InitSync ==
  /\ field_updates = Idle /\ cache = Idle
  /\ pc = "ready"
  /\ \E d \in SyncDocs : svg = <<d>> /\ form_fields = parse_svg_to_form_fields(d)
  /\ patches = <<>>
  /\ result = <<>>
  /\ element_id = Idle /\ text_content = Idle /\ parsed = Idle

\* api/serializers/purchases.py, lines 95-103: a submitted value becomes the
\* currentValue of the field with that id
SubmitValue ==
  /\ pc = "ready"
  /\ \E i \in 1..Len(form_fields) :
       /\ Get(form_fields[i], "type") # T_select
       /\ \A j \in 1..Len(form_fields) : form_fields[j].id = form_fields[i].id => j = i
       /\ form_fields' = [form_fields EXCEPT ![i] = Put(@, "currentValue", X_Alice)]
  /\ UNCHANGED <<pc, element_id, text_content, parsed, svg, patches, result, field_updates, cache>>

\* the instance's stored document is replaced by the editor's (which may carry
\* renamed identifiers), or the instance has none
StoreDocument ==
  /\ pc = "ready"
  /\ svg' \in {<<>>} \cup {<<d>> : d \in SyncDocs}
  /\ UNCHANGED <<pc, element_id, text_content, parsed, form_fields, patches, result, field_updates, cache>>

\* lines 14-18: the list of the instance after the call.  The loop writes to
\* updated_fields, a deep copy made by json.loads(json.dumps(form_fields)), so no
\* write reaches the list the instance holds
InputAfter(fields, r) == fields

\* the record of a call: the fields before it, the list of the instance after it
\* and what it returned
Synced(before, r) ==
  [before |-> before, input |-> InputAfter(before, r), fields |-> r.fields,
   modified |-> r.modified, raised |-> r.raised]

\* api/serializers/purchases.py, lines 112-123: the batch is synced and the fields
\* are saved when the sync reports a change
Sync ==
  /\ pc = "ready"
  /\ \E batch \in UNION {[1..n -> SyncPatches] : n \in 0..MaxBatch} :
       /\ patches' = batch
       /\ result' = <<Synced(form_fields, sync_form_fields_with_patches(form_fields, svg, batch))>>
       /\ form_fields' = IF result'[1].modified /\ ~result'[1].raised
                         THEN result'[1].fields ELSE form_fields
  /\ pc' = "synced"
  /\ UNCHANGED <<element_id, text_content, parsed, svg, field_updates, cache>>

NextSync == SubmitValue \/ StoreDocument \/ Sync

SpecSync == InitSync /\ [][NextSync]_vars

----------------------------------------------------------------------------
(* Claims about sync_form_fields_with_patches, checked under SpecSync *)

\* the call synced exactly one patch, of the given attribute
OnePatch(attribute) ==
  /\ pc = "synced"
  /\ Len(patches) = 1
  /\ Get(patches[1], "attribute") = attribute
  /\ Truthy(Get(patches[1], "id"))

\* the base id of an identifier: what precedes its first dot
BaseOf(id) == Split(id, ".")[1]

\* the fields of a list that are no select fields and own the identifier id
OwnersOf(fields, id) ==
  {i \in 1..Len(fields) : Get(fields[i], "type") # T_select
                          /\ Get(fields[i], "svgElementId") = id}

\* C1: a patch that changes only the extension suffix of a regular field's identifier
\* leaves a field with that id and with the current value the field had, whatever
\* the text of the document element is.
C1_SyncPreservesValue ==
  OnePatch(A_id) =>
    \A i \in OwnersOf(result[1].before, patches[1].id) :
      ( /\ BaseOf(StrOf(patches[1])) = BaseOf(patches[1].id)
        /\ StrOf(patches[1]) # patches[1].id
        /\ parse_field_from_id(StrOf(patches[1]), <<>>) # <<>> )
      => /\ ~result[1].raised
         /\ \E j \in 1..Len(result[1].fields) :
              /\ result[1].fields[j].id = result[1].before[i].id
              /\ result[1].fields[j].currentValue = result[1].before[i].currentValue

\* the metadata an identifier encodes: the type and the optional attributes of the
\* field that parse_field_from_id makes of it
MetaKeys == {"type", "max", "maxGeneration", "dependsOn", "trackingRole", "dateFormat",
             "generationRule", "link", "isTrackingId", "editable", "requiresGrayscale",
             "grayscaleIntensity"}
SameMeta(f, g) ==
  \A k \in MetaKeys : /\ (k \in DOMAIN f) = (k \in DOMAIN g)
                      /\ k \in DOMAIN f => f[k] = g[k]

\* C2: an id patch whose new identifier parses to a field reports a change and leaves
\* the field owning the old identifier with the metadata the new identifier encodes,
\* with or without a document and whichever identifier the document carries.
C2_IdChangeFromIdentifier ==
  OnePatch(A_id) =>
    \A i \in OwnersOf(result[1].before, patches[1].id) :
      parse_field_from_id(StrOf(patches[1]), <<>>) # <<>>
      => /\ ~result[1].raised
         /\ result[1].modified
         /\ \E j \in 1..Len(result[1].fields) :
              /\ result[1].fields[j].svgElementId = StrOf(patches[1])
              /\ SameMeta(result[1].fields[j], parse_field_from_id(StrOf(patches[1]), <<>>)[1])

\* the element ids an innerText patch can match in a field list, in list order: the
\* identifier of each regular field and of each select option
RECURSIVE TextTargets(_, _)
TextTargets(fields, i) ==
  IF i > Len(fields) THEN <<>>
  ELSE (IF Get(fields[i], "type") = T_select
        THEN [j \in 1..Len(fields[i].options) |->
                [id |-> fields[i].options[j].svgElementId, field |-> i, option |-> j]]
        ELSE <<[id |-> fields[i].svgElementId, field |-> i, option |-> 0]>>)
       \o TextTargets(fields, i + 1)

\* the target an innerText patch for e matches: the one with identifier e, or else
\* the first whose identifier equals e case-insensitively; <<>> when none does
TargetOf(fields, e) ==
  LET ts    == TextTargets(fields, 1)
      exact == {k \in 1..Len(ts) : ts[k].id = e}
      loose == {k \in 1..Len(ts) : Lower(ts[k].id) = Lower(e)}
  IN IF exact # {} THEN <<ts[CHOOSE k \in exact : \A m \in exact : k <= m]>>
     ELSE IF loose # {} THEN <<ts[CHOOSE k \in loose : \A m \in loose : k <= m]>>
     ELSE <<>>

\* field g is field f with the text v: as default and current value of a regular
\* field, as stored text of option j of a select field
TextSet(f, g, j, v) ==
  IF j = 0
  THEN g = Put(Put(f, "defaultValue", v), "currentValue", v)
  ELSE /\ g.options[j].displayText = v
       /\ g.options[j].svgElementId = f.options[j].svgElementId
       /\ g.options[j].value = f.options[j].value
       /\ \A k \in 1..Len(f.options) : k # j => g.options[k] = f.options[k]
       /\ Len(g.options) = Len(f.options)
       /\ \A key \in DOMAIN f \ {"options"} : key \in DOMAIN g /\ g[key] = f[key]

\* C10: an innerText patch for e with value v, e matching a target exactly or else
\* case-insensitively, reports a change; a matched regular field has defaultValue =
\* currentValue = v, a matched select option has the stored text v; every other field
\* is unchanged.
C10_InnerTextSync ==
  OnePatch(A_innerText) =>
    LET before == result[1].before
        after  == result[1].fields
        t      == TargetOf(before, patches[1].id)
    IN /\ ~result[1].raised
       /\ Len(after) = Len(before)
       /\ t # <<>> =>
            /\ result[1].modified
            /\ TextSet(before[t[1].field], after[t[1].field], t[1].option, StrOf(patches[1]))
            /\ \A i \in 1..Len(before) : i # t[1].field => after[i] = before[i]
       /\ t = <<>> => (after = before /\ ~result[1].modified)

\* C10 witness: the patch matched a regular field only case-insensitively, and the
\* field holds the patch's text
C10_Witness ==
  /\ OnePatch(A_innerText)
  /\ LET t == TargetOf(result[1].before, patches[1].id)
     IN /\ t # <<>>
        /\ t[1].option = 0
        /\ t[1].id # patches[1].id
        /\ result[1].before[t[1].field].currentValue # StrOf(patches[1])
        /\ result[1].fields[t[1].field].currentValue = StrOf(patches[1])

----------------------------------------------------------------------------
(* api/svg_utils.py: set_element_attribute and apply_svg_patches.  The parsed tree
   is the sequence of the root's descendants that the patches address, each a
   record [node, attrib, text, children]: node is the identity of the element
   object, attrib maps attribute names to values (a namespaced attribute under its
   "{uri}name" key), text is <<>> for no text, children are the element's <tspan>
   children. *)

K_name      == <<"n","a","m","e">>
K_data_name == <<"d","a","t","a","-","n","a","m","e">>
A_href      == <<"x","l","i","n","k",":","h","r","e","f">>
A_bad       == <<"q",":","r">>
NS_svg      == <<"h","t","t","p",":","/","/","w","w","w",".","w","3",".","o","r","g","/","2","0","0","0","/","s","v","g">>
NS_xlink    == <<"h","t","t","p",":","/","/","w","w","w",".","w","3",".","o","r","g","/","1","9","9","9","/","x","l","i","n","k">>

\* lines 107-109: the namespace map of an SVG document, with the two defaults
namespaces == (<<"s","v","g">> :> NS_svg) @@ (<<"x","l","i","n","k">> :> NS_xlink)

\* isinstance(value, dict) of a patch's value
IsDict(patch) == "value" \in DOMAIN patch /\ "s" \notin DOMAIN patch.value

\* the place of the element object node in the tree, 0 when it is detached
PlaceOf(tree, node) ==
  IF \E i \in 1..Len(tree) : tree[i].node = node
  THEN CHOOSE i \in 1..Len(tree) : tree[i].node = node
  ELSE 0

\* svg_tree.xpath(".//*[@key='value']"): the places of the matches, in document order
XPath(tree, key, value) ==
  Ascending({i \in 1..Len(tree) : key \in DOMAIN tree[i].attrib /\ tree[i].attrib[key] = value})

\* str(value) of a str or None
Str(value) == IF value = NoneVal THEN <<"N","o","n","e">> ELSE value

\* lines 9-14: innerText drops the children and sets the text to str(value)
SetInnerText(element, value) ==
  [element EXCEPT !.children = <<>>, !.text = Str(value)]

\* lines 74-80: an empty or None value deletes the attribute
DeleteAttribute(tree, i, attribute) ==
  IF attribute \in DOMAIN tree[i].attrib
  THEN [tree |-> [tree EXCEPT ![i].attrib =
                    [k \in DOMAIN tree[i].attrib \ {attribute} |-> tree[i].attrib[k]]],
        ok |-> TRUE]
  ELSE [tree |-> tree, ok |-> FALSE]

\* element.set(key, value)
SetKey(tree, i, key, value) ==
  [tree |-> [tree EXCEPT ![i].attrib = Put(tree[i].attrib, key, value)], ok |-> TRUE]

\* lines 82-94: a prefixed attribute is set under its namespace; a prefix that is not
\* registered reaches element.set with a colon in the name, which raises
SetAttribute(tree, i, attribute, value) ==
  IF Contains(attribute, <<":">>)
  THEN IF SubSeq(attribute, 1, Find(attribute, <<":">>) - 1) \in DOMAIN namespaces
       THEN SetKey(tree, i,
                   <<"{">> \o namespaces[SubSeq(attribute, 1, Find(attribute, <<":">>) - 1)]
                   \o <<"}">> \o From(attribute, Find(attribute, <<":">>) + 1), value)
       ELSE [tree |-> tree, ok |-> FALSE]
  ELSE SetKey(tree, i, attribute, value)

\* lines 50-62: the element is removed from its parent and inserted next to the
\* reference; when it is its own reference, index() raises after the removal
MoveNextTo(tree, i, ref, move_after) ==
  IF ref = tree[i].node
  THEN [tree |-> Remove(tree, i), ok |-> FALSE]
  ELSE [tree |-> SubSeq(Remove(tree, i), 1,
                        PlaceOf(Remove(tree, i), ref) - (IF move_after THEN 0 ELSE 1))
                 \o <<tree[i]>>
                 \o SubSeq(Remove(tree, i),
                           PlaceOf(Remove(tree, i), ref) + (IF move_after THEN 1 ELSE 0),
                           Len(tree) - 1),
        ok |-> TRUE]

\* the first element with the id, as <<node>>, or <<>>
RefElement(tree, id) ==
  IF Truthy(id) /\ XPath(tree, K_id, id) # <<>>
  THEN <<tree[XPath(tree, K_id, id)[1]].node>>
  ELSE <<>>

\* `not ref_el` of an element or None: an element without children is falsy
NotRef(tree, ref) == ref = <<>> \/ tree[PlaceOf(tree, ref[1])].children = <<>>

\* lines 16-72: reorder; the beforeId reference is tried first, and the afterId
\* reference replaces a missing or childless one
Reorder(tree, i, before, after) ==
  IF NotRef(tree, before) /\ after # <<>>
  THEN MoveNextTo(tree, i, after[1], FALSE)
  ELSE IF before # <<>>
  THEN MoveNextTo(tree, i, before[1], TRUE)
  ELSE [tree |-> tree, ok |-> FALSE]

\* set_element_attribute(element, attribute, value, namespaces, svg_tree), the element
\* being the object node: the tree afterwards and the value returned
set_element_attribute(tree, node, patch) ==
  IF PlaceOf(tree, node) = 0 THEN [tree |-> tree, ok |-> FALSE]
  ELSE IF patch.attribute = A_innerText
  THEN [tree |-> [tree EXCEPT ![PlaceOf(tree, node)] = SetInnerText(@, StrOf(patch))],
        ok |-> TRUE]
  ELSE IF patch.attribute = A_reorder
  THEN IF IsDict(patch)
       THEN Reorder(tree, PlaceOf(tree, node),
                    RefElement(tree, Get(patch.value, "beforeId")),
                    RefElement(tree, Get(patch.value, "afterId")))
       ELSE [tree |-> tree, ok |-> FALSE]
  ELSE IF "value" \notin DOMAIN patch \/ StrOf(patch) = <<>>
  THEN DeleteAttribute(tree, PlaceOf(tree, node), patch.attribute)
  ELSE SetAttribute(tree, PlaceOf(tree, node), patch.attribute, StrOf(patch))

\* lines 139-144: the patch is applied to each matched element object in turn
RECURSIVE SetEach(_, _, _)
SetEach(tree, nodes, patch) ==
  IF nodes = <<>> THEN tree
  ELSE SetEach(set_element_attribute(tree, Head(nodes), patch).tree, Tail(nodes), patch)

\* a slip: a lookup that finds nothing addresses every element
FindElementsOrAll(tree, p_id) ==
  IF XPath(tree, K_id, p_id) # <<>>
  THEN [k \in DOMAIN XPath(tree, K_id, p_id) |-> tree[XPath(tree, K_id, p_id)[k]].node]
  ELSE IF XPath(tree, K_name, p_id) # <<>>
  THEN [k \in DOMAIN XPath(tree, K_name, p_id) |-> tree[XPath(tree, K_name, p_id)[k]].node]
  ELSE IF XPath(tree, K_data_name, p_id) # <<>>
  THEN [k \in DOMAIN XPath(tree, K_data_name, p_id) |->
          tree[XPath(tree, K_data_name, p_id)[k]].node]
  ELSE [k \in DOMAIN tree |-> tree[k].node]

\* lines 124-137: the elements a patch addresses, as their node identities: those with
\* the id, or else with the name, or else with the data-name
FindElements(tree, p_id) ==
  IF XPath(tree, K_id, p_id) # <<>>
  THEN [k \in DOMAIN XPath(tree, K_id, p_id) |-> tree[XPath(tree, K_id, p_id)[k]].node]
  ELSE IF XPath(tree, K_name, p_id) # <<>>
  THEN [k \in DOMAIN XPath(tree, K_name, p_id) |-> tree[XPath(tree, K_name, p_id)[k]].node]
  ELSE [k \in DOMAIN XPath(tree, K_data_name, p_id) |->
          tree[XPath(tree, K_data_name, p_id)[k]].node]

\* lines 112-148: one patch; a patch without id or attribute is skipped
ApplyPatch(tree, patch) ==
  IF ~(Truthy(Get(patch, "id")) /\ Truthy(Get(patch, "attribute"))) THEN tree
  ELSE SetEach(tree, FindElements(tree, patch.id), patch)

RECURSIVE ApplyLoop(_, _)
ApplyLoop(tree, batch) ==
  IF batch = <<>> THEN tree ELSE ApplyLoop(ApplyPatch(tree, Head(batch)), Tail(batch))

\* etree.fromstring(svg_content, parser): every element becomes an object of its own
ParseTree(doc) ==
  [i \in 1..Len(doc) |-> [node |-> i, attrib |-> doc[i].attrib, text |-> doc[i].text,
                          children |-> doc[i].children]]

\* etree.tostring(svg_tree): the text of the tree, which holds no object identities
tostring(tree) ==
  [i \in 1..Len(tree) |-> [attrib |-> tree[i].attrib, text |-> tree[i].text,
                           children |-> tree[i].children]]

\* apply_svg_patches(svg_content, patches)
apply_svg_patches(svg_content, batch) ==
  IF batch = <<>> THEN svg_content
  ELSE tostring(ApplyLoop(ParseTree(svg_content), batch))

----------------------------------------------------------------------------
(* apply_svg_patches on bounded inputs: a document, a batch of at most MaxApply
   patches, and the batch applied once more to the document it produced *)

MaxApply == 2

E_c == <<"c">>
E_d == <<"d">>
X_u == <<"u">>

\* an element with further attributes
With(element, key, value) == [element EXCEPT !.attrib = Put(@, key, value)]

ApplyDocs ==
  { <<Leaf(E_a, X_T), Leaf(E_b, X_T)>>,
    <<Spans(E_a, X_T), With(Leaf(E_c, <<>>), K_name, E_a)>>,
    <<With(With(Leaf(E_c, X_T), K_name, E_a), A_fill, V_2), Spans(E_b, <<>>)>>,
    <<Leaf(E_a, <<>>), Spans(E_b, X_T), With(Leaf(E_c, X_T), K_data_name, E_d)>> }

ApplyPatches ==
  { [id |-> E_a, attribute |-> A_fill, value |-> SVal(V_1)],
    [id |-> E_b, attribute |-> A_fill, value |-> SVal(V_1)],
    [id |-> E_d, attribute |-> A_fill, value |-> SVal(V_1)],
    [id |-> E_a, attribute |-> A_fill, value |-> SVal(<<>>)],
    [id |-> E_a, attribute |-> A_fill],
    [id |-> E_a, attribute |-> A_id, value |-> SVal(E_b)],
    [id |-> E_b, attribute |-> A_id, value |-> SVal(E_a)],
    [id |-> E_a, attribute |-> K_name, value |-> SVal(E_b)],
    [id |-> E_a, attribute |-> A_innerText, value |-> SVal(X_V)],
    [id |-> E_a, attribute |-> A_innerText],
    [id |-> E_a, attribute |-> A_href, value |-> SVal(X_u)],
    [id |-> E_a, attribute |-> A_bad, value |-> SVal(X_u)],
    [id |-> <<>>, attribute |-> A_fill, value |-> SVal(V_1)],
    [id |-> E_a, attribute |-> A_reorder, value |-> SVal(E_b)],
    [id |-> E_a, attribute |-> A_reorder, value |-> [afterId |-> E_b]],
    [id |-> E_a, attribute |-> A_reorder, value |-> [beforeId |-> E_b]],
    [id |-> E_a, attribute |-> A_reorder, value |-> [beforeId |-> E_b, afterId |-> E_a]],
    [id |-> E_a, attribute |-> A_reorder, value |-> [beforeId |-> E_c, afterId |-> E_b]],
    [id |-> E_a, attribute |-> A_href, value |-> SVal(<<>>)] }

InitApply ==
  /\ field_updates = Idle /\ cache = Idle
  /\ pc = "apply"
  /\ svg \in {<<d>> : d \in ApplyDocs}
  /\ patches = <<>>
  /\ result = <<>>
  /\ element_id = Idle /\ text_content = Idle /\ parsed = Idle /\ form_fields = Idle

\* apply_svg_patches(svg_content, patches)
ApplySvgPatches ==
  /\ pc = "apply"
  /\ \E batch \in UNION {[1..n -> ApplyPatches] : n \in 0..MaxApply} :
       /\ patches' = batch
       /\ result' = <<apply_svg_patches(svg[1], batch)>>
  /\ pc' = "applied"
  /\ UNCHANGED <<element_id, text_content, parsed, svg, form_fields, field_updates, cache>>

\* the same batch applied to the document the first call returned
ApplyAgain ==
  /\ pc = "applied"
  /\ result' = Append(result, apply_svg_patches(result[1], patches))
  /\ pc' = "applied twice"
  /\ UNCHANGED <<element_id, text_content, parsed, svg, form_fields, patches, field_updates, cache>>

\* api/serializers/purchases.py, lines 112-116: the log is stored merged, and the
\* stored log is what is applied to the document from then on
ApplyMerged ==
  /\ pc = "applied"
  /\ result' = Append(result, apply_svg_patches(svg[1], merge_svg_patches(patches)))
  /\ pc' = "applied merged"
  /\ UNCHANGED <<element_id, text_content, parsed, svg, form_fields, patches, field_updates, cache>>

NextApply == ApplySvgPatches \/ ApplyAgain \/ ApplyMerged

SpecApply == InitApply /\ [][NextApply]_vars

----------------------------------------------------------------------------
(* Claims about apply_svg_patches, checked under SpecApply *)

\* C3: for a batch without reorder patches, applying the batch to the document it
\* produced gives that document again.
C3_ApplyIdempotent ==
  (pc = "applied twice"
   /\ \A i \in 1..Len(patches) : Get(patches[i], "attribute") # A_reorder)
  => result[2] = result[1]

----------------------------------------------------------------------------
(* api/svg_updater.py: the value helpers.  A value is a str, None, True or False. *)

\* str(value)
PyStr(value) ==
  IF value = NoneVal THEN <<"N","o","n","e">>
  ELSE IF value = PyTrue THEN <<"T","r","u","e">>
  ELSE IF value = PyFalse THEN <<"F","a","l","s","e">>
  ELSE value

\* isinstance(value, str)
IsStr(value) == value \notin {NoneVal, PyTrue, PyFalse}

\* int(s) accepts s: blanks around, an optional sign, then digits
IsSignedInt(s) ==
  IF Strip(s) # <<>> /\ Strip(s)[1] \in {"+", "-"}
  THEN IsIntLiteral(Tail(Strip(s)))
  ELSE IsIntLiteral(Strip(s))

SignedIntOf(s) ==
  IF Strip(s)[1] = "-" THEN 0 - IntOf(Tail(Strip(s)))
  ELSE IF Strip(s)[1] = "+" THEN IntOf(Tail(Strip(s)))
  ELSE IntOf(Strip(s))

\* text.split(): the maximal runs of non-blank characters
RECURSIVE Words(_)
Words(text) ==
  IF LStrip(text) = <<>> THEN <<>>
  ELSE IF \E i \in 1..Len(LStrip(text)) : IsSpace(LStrip(text)[i])
  THEN <<SubSeq(LStrip(text), 1,
                (CHOOSE i \in 1..Len(LStrip(text)) :
                   /\ IsSpace(LStrip(text)[i])
                   /\ \A j \in 1..(i - 1) : ~IsSpace(LStrip(text)[j])) - 1)>>
       \o Words(From(LStrip(text),
                     CHOOSE i \in 1..Len(LStrip(text)) :
                       /\ IsSpace(LStrip(text)[i])
                       /\ \A j \in 1..(i - 1) : ~IsSpace(LStrip(text)[j])))
  ELSE <<LStrip(text)>>

\* text[a:b] for 0-based a and b of either sign
SliceBound(n, k) == IF k < 0 THEN Max(n + k, 0) ELSE Min(k, n)
Slice(text, a, b) == SubSeq(text, SliceBound(Len(text), a) + 1, SliceBound(Len(text), b))

\* lines 42-48: _extract_word(text, pattern)
_extract_word(text, pattern) ==
  IF ~IsSignedInt(pattern) THEN <<>>
  ELSE IF 0 <= SignedIntOf(pattern) - 1 /\ SignedIntOf(pattern) - 1 < Len(Words(text))
  THEN Words(text)[SignedIntOf(pattern)]
  ELSE <<>>

\* lines 52-59 and 66-70: the characters at the listed places, parts that are no int skipped
RECURSIVE CharsAt(_, _)
CharsAt(text, parts) ==
  IF parts = <<>> THEN <<>>
  ELSE (IF IsSignedInt(Head(parts))
           /\ 0 <= SignedIntOf(Head(parts)) - 1
           /\ SignedIntOf(Head(parts)) - 1 < Len(text)
        THEN <<text[SignedIntOf(Head(parts))]>>
        ELSE <<>>) \o CharsAt(text, Tail(parts))

\* lines 60-65: a range start-end is the slice text[start - 1 : end]
CharsRange(text, parts) ==
  IF Len(parts) = 2 /\ IsSignedInt(parts[1]) /\ IsSignedInt(parts[2])
  THEN Slice(text, SignedIntOf(parts[1]) - 1, SignedIntOf(parts[2]))
  ELSE <<>>

\* lines 51-70: _extract_chars(text, pattern)
_extract_chars(text, pattern) ==
  IF Contains(pattern, <<",">>) THEN CharsAt(text, Split(pattern, ","))
  ELSE IF Contains(pattern, <<"-">>) THEN CharsRange(text, Split(pattern, "-"))
  ELSE CharsAt(text, <<pattern>>)

\* lines 73-79: _bool_from_value(value)
_bool_from_value(value) ==
  IF value \in {PyTrue, PyFalse} THEN value = PyTrue
  ELSE Lower(Strip(PyStr(value))) \in {<<"t","r","u","e">>, <<"1">>, <<"y","e","s">>, <<"y">>}

\* field_values.get(name, "") of the dict held as a function
ValueOf(field_values, name) == IF name \in DOMAIN field_values THEN field_values[name] ELSE <<>>

\* a data: or blob: reference is passed on whole
IsImageRef(value) ==
  IsStr(value) /\ (StartsWith(value, <<"d","a","t","a",":","i","m","a","g","e","/">>)
                   \/ StartsWith(value, <<"b","l","o","b",":">>))

\* str(field_value or "")
StrOrEmpty(value) == IF Truthy(value) THEN PyStr(value) ELSE <<>>

\* the places p of a "[" in depends_on at which ^(.+)\[(w|ch)(.+)\]$ can match:
\* something before it, w or ch after it, something more, and "]" at the end
BracketPlaces(d) ==
  {p \in 2..Len(d) :
     /\ d[p] = "[" /\ d[Len(d)] = "]"
     /\ \/ (p + 1 <= Len(d) /\ d[p + 1] = "w" /\ p + 2 <= Len(d) - 1)
        \/ (p + 2 <= Len(d) /\ d[p + 1] = "c" /\ d[p + 2] = "h" /\ p + 3 <= Len(d) - 1)}

\* the greedy first group ends before the last such place
BracketPlace(d) == CHOOSE p \in BracketPlaces(d) : \A q \in BracketPlaces(d) : q <= p

\* lines 20-33: the extraction of a matched expression, its bracket at place p
ExtractMatched(d, p, field_values) ==
  IF IsImageRef(ValueOf(field_values, SubSeq(d, 1, p - 1)))
  THEN ValueOf(field_values, SubSeq(d, 1, p - 1))
  ELSE IF d[p + 1] = "w"
  THEN _extract_word(StrOrEmpty(ValueOf(field_values, SubSeq(d, 1, p - 1))),
                     SubSeq(d, p + 2, Len(d) - 1))
  ELSE _extract_chars(StrOrEmpty(ValueOf(field_values, SubSeq(d, 1, p - 1))),
                      SubSeq(d, p + 3, Len(d) - 1))

\* lines 11-39: _extract_from_dependency(depends_on, field_values)
_extract_from_dependency(depends_on, field_values) ==
  IF BracketPlaces(depends_on) # {}
  THEN ExtractMatched(depends_on, BracketPlace(depends_on), field_values)
  ELSE IF IsImageRef(ValueOf(field_values, depends_on))
  THEN ValueOf(field_values, depends_on)
  ELSE StrOrEmpty(ValueOf(field_values, depends_on))

----------------------------------------------------------------------------
(* api/svg_updater.py: update_svg_from_field_updates.  The document is the sequence
   of its elements with an id, as in the builder; a field is a dict; an update is a
   dict with id and value. *)

K_style     == <<"s","t","y","l","e">>
K_transform == <<"t","r","a","n","s","f","o","r","m">>
K_href      == <<"{">> \o NS_xlink \o <<"}","h","r","e","f">>
K_aspect    == <<"p","r","e","s","e","r","v","e","A","s","p","e","c","t","R","a","t","i","o">>

\* el.attrib.pop(key, None)
Pop(element, key) ==
  [element EXCEPT !.attrib = [k \in DOMAIN element.attrib \ {key} |-> element.attrib[k]]]

\* lines 229-233 and 333-335: the element is fully hidden
HideElement(element, clear_style) ==
  With(With(With(IF clear_style THEN Pop(element, K_style) ELSE element,
                 K_opacity, <<"0">>), K_visibility, W_hidden), K_display, W_none)

\* lines 252-255 and 329-331: the element is shown
ShowElement(element) ==
  Pop(With(With(element, K_opacity, <<"1">>), K_visibility, W_visible), K_display)

\* lines 205-209: element_map.get(id) as the place of the last element with the id,
\* 0 for None; an empty id is not in the map
ElementPlace(doc, id) ==
  IF Truthy(id) /\ XPath(doc, K_id, id) # <<>>
  THEN XPath(doc, K_id, id)[Len(XPath(doc, K_id, id))]
  ELSE 0

\* the last field of the list with the id: field_map[id]
FieldOf(fields, id) ==
  fields[CHOOSE i \in 1..Len(fields) :
           fields[i].id = id /\ \A j \in (i + 1)..Len(fields) : fields[j].id # id]

\* line 186: currentValue or defaultValue or ""
InitialValue(field) ==
  IF Truthy(Get(field, "currentValue")) THEN field.currentValue
  ELSE IF Truthy(Get(field, "defaultValue")) THEN field.defaultValue
  ELSE <<>>

\* lines 181-186: field_values before the updates
FieldValues(fields) ==
  [id \in {fields[i].id : i \in 1..Len(fields)} |-> InitialValue(FieldOf(fields, id))]

\* lines 189-192: the updates of known fields, in order; a missing value is ""
RECURSIVE ApplyUpdates(_, _)
ApplyUpdates(field_values, updates) ==
  IF updates = <<>> THEN field_values
  ELSE ApplyUpdates(
         IF Get(Head(updates), "id") \in DOMAIN field_values
         THEN Put(field_values, Head(updates).id,
                  IF "value" \in DOMAIN Head(updates) THEN Head(updates).value ELSE <<>>)
         ELSE field_values,
         Tail(updates))

\* lines 195-202: computed_values; a field with a dependency takes the extraction
ComputedValues(fields, field_values) ==
  [id \in DOMAIN field_values |->
     IF Truthy(Get(FieldOf(fields, id), "dependsOn"))
     THEN _extract_from_dependency(FieldOf(fields, id).dependsOn, field_values)
     ELSE field_values[id]]

\* lines 220-233: every option whose element exists is hidden
RECURSIVE HideOptions(_, _)
HideOptions(doc, options) ==
  IF options = <<>> THEN doc
  ELSE HideOptions(
         IF ElementPlace(doc, Get(Head(options), "svgElementId")) # 0
         THEN [doc EXCEPT ![ElementPlace(doc, Head(options).svgElementId)] = HideElement(@, TRUE)]
         ELSE doc,
         Tail(options))

\* lines 238-245: the first option whose value is field_value, as <<option>>, or <<>>
SelectedOption(options, field_value) ==
  IF \E i \in 1..Len(options) : PyStr(Get(options[i], "value")) = field_value
  THEN <<options[CHOOSE i \in 1..Len(options) :
                   /\ PyStr(Get(options[i], "value")) = field_value
                   /\ \A j \in 1..(i - 1) : PyStr(Get(options[j], "value")) # field_value]>>
  ELSE <<>>

\* lines 248-255: the selected option's element, if any, is shown
ShowSelected(doc, selected) ==
  IF selected # <<>> /\ ElementPlace(doc, Get(selected[1], "svgElementId")) # 0
  THEN [doc EXCEPT ![ElementPlace(doc, selected[1].svgElementId)] = ShowElement(@)]
  ELSE doc

\* lines 216-256: a select field: hide all, then show the selected one
RenderSelect(doc, field, field_values) ==
  ShowSelected(HideOptions(doc, field.options),
               SelectedOption(field.options, PyStr(ValueOf(field_values, field.id))))

\* re.search(r"transform\s*:", style): the style declares a transform
RECURSIVE DeclaresTransform(_)
DeclaresTransform(style) ==
  /\ Find(style, K_transform) # 0
  /\ \/ StartsWith(LStrip(From(style, Find(style, K_transform) + Len(K_transform))), <<":">>)
     \/ DeclaresTransform(From(style, Find(style, K_transform) + 1))

\* lines 82-93: _normalize_transform(el) returns at once when the style declares no
\* transform with a value; the elements modelled are of that kind
_normalize_transform(element) ==
  CASE ~DeclaresTransform(Attr(element, K_style, <<>>)) -> element

\* lines 276-284: the field's rotation, or else the one of the field it depends on
RotationOf(field, fields) ==
  IF Get(field, "rotation") = NoneVal /\ Truthy(Get(field, "dependsOn"))
     /\ \E i \in 1..Len(fields) : fields[i].id = Split(field.dependsOn, "[")[1]
  THEN Get(FieldOf(fields, Split(field.dependsOn, "[")[1]), "rotation")
  ELSE Get(field, "rotation")

K_x      == <<"x">>
K_y      == <<"y">>
K_width  == <<"w","i","d","t","h">>
K_height == <<"h","e","i","g","h","t">>
W_rotate == <<"r","o","t","a","t","e">>

\* the length of the run of decimal digits a text starts with
RECURSIVE DigitRun(_)
DigitRun(s) == IF s # <<>> /\ IsDigit(s[1]) THEN 1 + DigitRun(Tail(s)) ELSE 0

\* float(s) accepts s: blanks around, an optional sign, digits, and optionally a point
\* with digits after it (the numbers modelled have at most one digit after the point;
\* exponents, inf and nan do not occur)
IsFloatLiteral(s) ==
  /\ IsStr(s) /\ Strip(s) # <<>>
  /\ LET body == IF Strip(s)[1] \in {"+", "-"} THEN Tail(Strip(s)) ELSE Strip(s)
     IN /\ DigitRun(body) >= 1
        /\ \/ DigitRun(body) = Len(body)
           \/ /\ body[DigitRun(body) + 1] = "."
              /\ DigitRun(From(body, DigitRun(body) + 2)) = Len(body) - DigitRun(body) - 1
              /\ Len(body) - DigitRun(body) - 1 <= 1

\* float(s), in tenths
TenthsOf(s) ==
  LET body == IF Strip(s)[1] \in {"+", "-"} THEN Tail(Strip(s)) ELSE Strip(s)
      whole == IntOf(SubSeq(body, 1, DigitRun(body)))
      frac  == IF Len(body) >= DigitRun(body) + 2
               THEN IntOf(From(body, DigitRun(body) + 2)) ELSE 0
  IN (IF Strip(s)[1] = "-" THEN 0 - 1 ELSE 1) * (10 * whole + frac)

\* str(n) of a natural number
RECURSIVE DecimalOf(_)
DecimalOf(n) ==
  IF n < 10 THEN <<Digits[n + 1]>> ELSE DecimalOf(n \div 10) \o <<Digits[(n % 10) + 1]>>

\* str(f) of a float given in tenths: 900 is "90.0", -25 is "-2.5"
FloatStr(t) ==
  (IF t < 0 THEN <<"-">> ELSE <<>>)
  \o DecimalOf((IF t < 0 THEN 0 - t ELSE t) \div 10) \o <<".">>
  \o <<Digits[((IF t < 0 THEN 0 - t ELSE t) % 10) + 1]>>

\* float(el.get(key, 0)), in tenths
Measure(element, key) == TenthsOf(Attr(element, key, <<"0">>))

\* the text group(1) of rotate\s*\(\s*(-?\d+\.?\d*) matches when the pattern is tried
\* at the start of s, as <<text>>, or <<>>
AngleAt(s) ==
  IF ~StartsWith(s, W_rotate) \/ ~StartsWith(LStrip(From(s, 7)), <<"(">>) THEN <<>>
  ELSE LET rest == LStrip(Tail(LStrip(From(s, 7))))
           neg  == IF StartsWith(rest, <<"-">>) THEN 1 ELSE 0
           n    == DigitRun(From(rest, neg + 1))
       IN IF n = 0 THEN <<>>
          ELSE IF Len(rest) > neg + n /\ rest[neg + n + 1] = "."
          THEN <<SubSeq(rest, 1, neg + n + 1 + DigitRun(From(rest, neg + n + 2)))>>
          ELSE <<SubSeq(rest, 1, neg + n)>>

\* lines 303-305: re.search of the pattern: the first place where it matches
RECURSIVE RotateMatch(_)
RotateMatch(s) ==
  IF s = <<>> THEN <<>>
  ELSE IF AngleAt(s) # <<>> THEN AngleAt(s)
  ELSE RotateMatch(Tail(s))

\* line 313: re.sub(r"rotate\([^)]+\)", repl, s): every rotate(...) with something
\* between the brackets is replaced
RECURSIVE SubRotate(_, _)
SubRotate(s, repl) ==
  IF s = <<>> THEN <<>>
  ELSE IF /\ StartsWith(s, W_rotate \o <<"(">>)
          /\ Find(From(s, 8), <<")">>) > 1
  THEN repl \o SubRotate(From(s, 8 + Find(From(s, 8), <<")">>)), repl)
  ELSE <<s[1]>> \o SubRotate(Tail(s), repl)

\* lines 309-318: the transform with the rotation composed in
NewTransform(existing_transform, rotation_str) ==
  IF Contains(existing_transform, W_rotate \o <<"(">>)
  THEN Strip(SubRotate(existing_transform, rotation_str))
  ELSE IF rotation_str # <<>>
  THEN Strip(existing_transform \o <<" ">> \o rotation_str)
  ELSE existing_transform

\* lines 300-309: rotate(total, cx, cy) with the angle already in the transform added
\* to the field's rotation, or "" when the total is 0
RotationStr(element, rotation) ==
  LET base_rotation == IF RotateMatch(Attr(element, K_transform, <<>>)) # <<>>
                       THEN TenthsOf(RotateMatch(Attr(element, K_transform, <<>>))[1])
                       ELSE 0
      cx == Measure(element, K_x) + Measure(element, K_width) \div 2
      cy == Measure(element, K_y) + Measure(element, K_height) \div 2
  IN IF base_rotation + rotation = 0 THEN <<>>
     ELSE W_rotate \o <<"(">> \o FloatStr(base_rotation + rotation) \o <<",", " ">>
          \o FloatStr(cx) \o <<",", " ">> \o FloatStr(cy) \o <<")">>

\* lines 320-323: a transform that is empty is removed
SetTransform(element, new_transform) ==
  IF new_transform # <<>> THEN With(element, K_transform, new_transform)
  ELSE [element EXCEPT !.attrib = [k \in DOMAIN @ \ {K_transform} |-> @[k]]]

\* lines 286-324: the field's rotation is added to the transform; a rotation or a
\* measure that float() rejects leaves the element as it is
Rotated(element, rotation_val) ==
  IF rotation_val = NoneVal THEN element
  ELSE IF rotation_val \notin {PyTrue, PyFalse} /\ ~IsFloatLiteral(rotation_val) THEN element
  ELSE IF \E key \in {K_x, K_y, K_width, K_height} :
            ~IsFloatLiteral(Attr(element, key, <<"0">>)) THEN element
  ELSE SetTransform(element,
         NewTransform(Attr(element, K_transform, <<>>),
                      RotationStr(element,
                                  IF rotation_val = PyTrue THEN 10
                                  ELSE IF rotation_val = PyFalse THEN 0
                                  ELSE TenthsOf(rotation_val))))

\* lines 271-273: a non-blank str value becomes the image reference
WithImage(element, value) ==
  IF Truthy(value) /\ IsStr(value) /\ Strip(value) # <<>>
  THEN With(With(element, K_href, value), K_aspect, W_none)
  ELSE element

\* lines 267-324: upload, file and sign fields
RenderUpload(element, field, value, fields) ==
  Rotated(WithImage(_normalize_transform(element), value), RotationOf(field, fields))

\* lines 326-335: hide fields
RenderHide(element, value) ==
  IF _bool_from_value(value) THEN ShowElement(element) ELSE HideElement(element, FALSE)

\* a slip: the value is added to the text the element has
RenderTextAppended(element, value) ==
  [element EXCEPT !.children = <<>>,
                  !.text = @ \o (IF value = NoneVal THEN <<>> ELSE PyStr(value))]

\* lines 336-342: every other type: the children go and the text is the value
RenderText(element, value) ==
  [element EXCEPT !.children = <<>>,
                  !.text = IF value = NoneVal THEN <<>> ELSE PyStr(value)]

\* lines 265-342: the element of a field without options, by the field's type
RenderElement(element, field, field_type, value, fields) ==
  IF field_type \in {T_upload, T_file, T_sign} THEN RenderUpload(element, field, value, fields)
  ELSE IF field_type = T_hide THEN RenderHide(element, value)
  ELSE RenderText(element, value)

\* lines 212-342: one field of the second pass
RenderField(doc, field, fields, field_values, computed_values) ==
  IF "options" \in DOMAIN field /\ field.options # <<>>
  THEN RenderSelect(doc, field, field_values)
  ELSE IF ElementPlace(doc, Get(field, "svgElementId")) = 0 THEN doc
  ELSE [doc EXCEPT ![ElementPlace(doc, field.svgElementId)] =
          RenderElement(@, field,
                        Lower(IF Truthy(Get(field, "type")) THEN field.type ELSE T_text),
                        computed_values[field.id], fields)]

RECURSIVE RenderFields(_, _, _, _, _)
RenderFields(doc, i, fields, field_values, computed_values) ==
  IF i > Len(fields) THEN doc
  ELSE RenderFields(RenderField(doc, fields[i], fields, field_values, computed_values),
                    i + 1, fields, field_values, computed_values)

\* lines 345-348: the computed value is stored on every field
Persisted(fields, computed_values) ==
  [i \in 1..Len(fields) |-> Put(fields[i], "currentValue", computed_values[fields[i].id])]

\* lines 160-162: the cache key: the document and the updates, not the field list
CacheKey(svg_content, updates) == <<svg_content, updates>>

\* lines 169-351: the result of a call that the cache does not answer
Rendered(svg_content, fields, field_values) ==
  [svg    |-> RenderFields(svg_content, 1, fields, field_values,
                           ComputedValues(fields, field_values)),
   fields |-> Persisted(fields, ComputedValues(fields, field_values))]

\* update_svg_from_field_updates(svg_content, form_fields, field_updates) with the
\* cache entries as they are at the call: the tuple returned and the entries afterwards.
\* svg_content is <<>> for an empty text and <<doc>> otherwise.
update_svg_from_field_updates(svg_content, fields, updates, entries) ==
  IF svg_content = <<>> \/ fields = <<>>
  THEN [svg |-> svg_content, fields |-> fields, cache |-> entries]
  ELSE IF DictGet(entries, CacheKey(svg_content, updates)) # <<>>
  THEN [svg    |-> DictGet(entries, CacheKey(svg_content, updates))[1].svg,
        fields |-> DictGet(entries, CacheKey(svg_content, updates))[1].fields,
        cache  |-> entries]
  ELSE [svg    |-> <<Rendered(svg_content[1], fields,
                              ApplyUpdates(FieldValues(fields), updates)).svg>>,
        fields |-> Rendered(svg_content[1], fields,
                            ApplyUpdates(FieldValues(fields), updates)).fields,
        cache  |-> DictSet(entries, CacheKey(svg_content, updates),
                           [svg    |-> <<Rendered(svg_content[1], fields,
                                                  ApplyUpdates(FieldValues(fields), updates)).svg>>,
                            fields |-> Rendered(svg_content[1], fields,
                                                ApplyUpdates(FieldValues(fields), updates)).fields])]

----------------------------------------------------------------------------
(* update_svg_from_field_updates on bounded inputs: a document with the field list
   built from it, at most MaxUpdates submitted updates, and the same call made once
   more, the cache entry of the first call still there or timed out *)

MaxUpdates == 2

I_M_dep == I_M \o <<".">> \o P_depends \o <<"N","[","w","2","]">>
I_P     == <<"P",".">> \o T_upload
I_H     == <<"H",".">> \o F_hide_checked
X_VW    == <<"V"," ","W">>
X_zz    == <<"z","z">>
X_turned == <<"t","r","a","n","s","l","a","t","e","(","1",",","2",")"," ",
              "r","o","t","a","t","e","(","-","9","0",")">>

RenderDocs ==
  { <<Leaf(I_S_a, <<"A">>), Hidden(I_S_b, <<"B">>), Leaf(I_N, X_T)>>,
    <<Hidden(I_S_a, <<"A">>), Hidden(I_S_b, <<"B">>), Spans(I_N, X_T)>>,
    <<Spans(I_N, X_T), Leaf(I_M_dep, <<>>), Leaf(I_P, <<>>), Leaf(I_H, <<>>)>>,
    <<With(With(With(Leaf(I_P, <<>>), K_width, <<"1","0">>), K_height, <<"4">>),
           K_transform, X_turned), Leaf(I_N, X_T)>> }

\* the rotations an upload field of a stored field list declares
Rotations == {<<"9","0">>}

\* the field lists stored for a document: the one built from it, and that one with a
\* rotation declared on its upload fields
FieldLists(d) ==
  {parse_svg_to_form_fields(d)}
  \cup {[i \in DOMAIN parse_svg_to_form_fields(d) |->
           IF Get(parse_svg_to_form_fields(d)[i], "type") = T_upload
           THEN Put(parse_svg_to_form_fields(d)[i], "rotation", r)
           ELSE parse_svg_to_form_fields(d)[i]] : r \in Rotations}

RenderUpdates ==
  { [id |-> <<"S">>, value |-> I_S_b],
    [id |-> <<"S">>, value |-> <<>>],
    [id |-> <<"S">>, value |-> X_zz],
    [id |-> <<"S">>],
    [id |-> I_N, value |-> X_VW],
    [id |-> I_N, value |-> NoneVal],
    [id |-> <<"H">>, value |-> PyFalse],
    [id |-> <<"P">>, value |-> X_u],
    [id |-> <<"Z">>, value |-> X_V] }

InitRender ==
  /\ pc = "ready"
  /\ \E d \in RenderDocs : svg = <<d>> /\ form_fields \in FieldLists(d)
  /\ field_updates = <<>>
  /\ cache = <<>>
  /\ result = <<>>
  /\ element_id = Idle /\ text_content = Idle /\ parsed = Idle /\ patches = Idle

\* the tuple a call returned
Returned(r) == [svg |-> r.svg, fields |-> r.fields]

\* update_svg_from_field_updates(base_svg, form_fields, field_updates)
Render ==
  /\ pc = "ready"
  /\ \E updates \in UNION {[1..n -> RenderUpdates] : n \in 0..MaxUpdates} :
       /\ field_updates' = updates
       /\ result' = <<Returned(update_svg_from_field_updates(svg, form_fields, updates, cache))>>
       /\ cache' = update_svg_from_field_updates(svg, form_fields, updates, cache).cache
  /\ pc' = "rendered"
  /\ UNCHANGED <<element_id, text_content, parsed, svg, form_fields, patches>>

\* cache.set(cache_key, result, 3600): the entries time out
ExpireCache ==
  /\ pc = "rendered"
  /\ cache # <<>>
  /\ cache' = <<>>
  /\ UNCHANGED <<pc, element_id, text_content, parsed, svg, form_fields, patches, result,
                 field_updates>>

\* api/serializers/purchases.py, lines 95-103: a value submitted for a field of the
\* instance becomes its currentValue, the stored document staying as it is: False
\* for a hidden-toggle field, a text for the others
StoredValue(field) == IF Get(field, "type") = T_hide THEN PyFalse ELSE X_V

StoreValue ==
  /\ pc \in {"ready", "rendered"}
  /\ form_fields = parse_svg_to_form_fields(svg[1])
  /\ \E i \in 1..Len(form_fields) :
       /\ Get(form_fields[i], "type") # T_select
       /\ form_fields' = [form_fields EXCEPT ![i] = Put(@, "currentValue", StoredValue(@))]
  /\ pc' = IF pc = "ready" THEN "ready" ELSE "stored"
  /\ UNCHANGED <<element_id, text_content, parsed, svg, patches, result, field_updates, cache>>

\* the same document and updates once more, with the field list as it is now
RenderAgain ==
  /\ pc \in {"rendered", "stored"}
  /\ result' = Append(result, Returned(update_svg_from_field_updates(svg, form_fields,
                                                                     field_updates, cache)))
  /\ cache' = update_svg_from_field_updates(svg, form_fields, field_updates, cache).cache
  /\ pc' = "rendered twice"
  /\ UNCHANGED <<element_id, text_content, parsed, svg, form_fields, patches, field_updates>>

\* the document and the field list a call returned, rendered with the same updates
RenderOutput ==
  /\ pc = "rendered"
  /\ result' = Append(result, Returned(update_svg_from_field_updates(
                                         result[1].svg, result[1].fields, field_updates, cache)))
  /\ cache' = update_svg_from_field_updates(result[1].svg, result[1].fields,
                                            field_updates, cache).cache
  /\ pc' = "rendered output"
  /\ UNCHANGED <<element_id, text_content, parsed, svg, form_fields, patches, field_updates>>

NextRender == Render \/ StoreValue \/ ExpireCache \/ RenderAgain \/ RenderOutput

SpecRender == InitRender /\ [][NextRender]_vars

----------------------------------------------------------------------------
(* Claims about update_svg_from_field_updates, checked under SpecRender *)

\* the places in a document of the elements of a select field's options
OptionPlaces(doc, field) ==
  {ElementPlace(doc, field.options[j].svgElementId) : j \in 1..Len(field.options)}

\* C6: after a render, every select field whose option elements are all in the
\* document has exactly one option element with visibility = visible, and the others
\* hidden, whatever value is stored or submitted.
C6_SelectOneVisible ==
  (pc = "rendered" /\ result[1].svg # <<>>) =>
    \A i \in 1..Len(form_fields) :
      ( /\ Get(form_fields[i], "type") = T_select
        /\ 0 \notin OptionPlaces(result[1].svg[1], form_fields[i]) )
      => /\ Cardinality({p \in OptionPlaces(result[1].svg[1], form_fields[i]) :
                           Attr(result[1].svg[1][p], K_visibility, <<>>) = W_visible}) = 1
         /\ \A p \in OptionPlaces(result[1].svg[1], form_fields[i]) :
              Attr(result[1].svg[1][p], K_visibility, <<>>) \in {W_visible, W_hidden}

\* an extension segment that sets a type: date_, gen_, tracking_id, hide... or the
\* name of a field type
SetsType(part) ==
  \/ StartsWith(part, P_date) \/ StartsWith(part, P_gen) \/ part = F_tracking_id
  \/ StartsWith(part, T_hide) \/ part \in FIELD_TYPES

\* C11: a field returned for an identifier none of whose extension segments sets a
\* type has type text, the base id as id and the passed text as default value,
\* whatever the base id is.
C11_DefaultTypeText ==
  ( /\ pc = "parsed" /\ parsed # <<>>
    /\ \A i \in 2..Len(SegmentsOf(element_id)) : ~SetsType(SegmentsOf(element_id)[i]) )
  => /\ parsed[1].type = T_text
     /\ parsed[1].id = SegmentsOf(element_id)[1]
     /\ parsed[1].defaultValue = text_content

----------------------------------------------------------------------------
(* Specification of the field builder: parse_svg_to_form_fields on a stored
   document, as api/models.py calls it when a template is saved *)

\* the most identified elements of a document with several of them
MaxElements == 3

I_S_c == <<"S",".","s","e","l","e","c","t","_","c",".","e","d","i","t","a","b","l","e">>

BuildIds == {I_S_a, I_S_b, I_S_c, I_N, I_N_max, <<"S">>}

BuildElements ==
  {Leaf(i, X_T) : i \in BuildIds} \cup {Hidden(i, X_T) : i \in BuildIds}

\* documents of several elements, no identifier used twice, and the documents of
\* one element for every identifier and text of the id-only parser
BuildDocs ==
  {d \in UNION {[1..n -> BuildElements] : n \in 2..MaxElements} :
     \A i, j \in DOMAIN d : d[i].attrib[K_id] = d[j].attrib[K_id] => i = j}
  \cup {<<Leaf(s, t)>> : s \in Ids \ {<<>>}, t \in Texts}

InitBuild ==
  /\ field_updates = Idle /\ cache = Idle
  /\ pc = "build"
  /\ \E d \in BuildDocs : svg = <<d>>
  /\ form_fields = <<>>
  /\ patches = Idle /\ result = Idle
  /\ element_id = Idle /\ text_content = Idle /\ parsed = Idle

\* parse_svg_to_form_fields(svg_text) returns its list
Built(st) ==
  /\ ~st.raised
  /\ form_fields' = st.fields
  /\ pc' = "built"

\* an exception of process_element_to_field leaves parse_svg_to_form_fields
BuildRaised(st) ==
  /\ st.raised
  /\ form_fields' = <<>>
  /\ pc' = "build raised"

ParseSvgToFormFields ==
  /\ pc = "build"
  /\ \/ Built(ProcessElements(svg[1], NoFields))
     \/ BuildRaised(ProcessElements(svg[1], NoFields))
  /\ UNCHANGED <<element_id, text_content, parsed, svg, patches, result, field_updates, cache>>

NextBuild == ParseSvgToFormFields

SpecBuild == InitBuild /\ [][NextBuild]_vars

----------------------------------------------------------------------------
(* The field builder: select groups *)

\* the parts of an element's identifier, its link taken off
PartsOf(element) == Split(extract_link_url(element.attrib[K_id]).cleaned_id, ".")

\* the places of the document's elements with base id b, select options or not
GroupOf(doc, b) == {i \in DOMAIN doc : PartsOf(doc[i])[1] = b}

\* the base ids all of whose elements are select options
SelectBases(doc) ==
  {b \in {PartsOf(doc[i])[1] : i \in DOMAIN doc} :
     \A i \in GroupOf(doc, b) : HasSelectPart(PartsOf(doc[i]))}

\* the members of a set of places in ascending order
RECURSIVE InOrder(_)
InOrder(places) ==
  IF places = {} THEN <<>>
  ELSE LET i == CHOOSE i \in places : \A j \in places : i <= j
       IN <<i>> \o InOrder(places \ {i})

VisiblePlaces(doc, b) == {i \in GroupOf(doc, b) : is_element_visible(doc[i])}

\* the field list holds one field for the select group b of the document, with the
\* group's options in document order, the first as default, the last visible as current
Aggregated(doc, fields, b) ==
  /\ Cardinality({k \in DOMAIN fields : fields[k].id = b}) = 1
  /\ \A k \in DOMAIN fields : fields[k].id = b =>
       /\ fields[k].type = T_select
       /\ Len(fields[k].options) = Cardinality(GroupOf(doc, b))
       /\ \A n \in DOMAIN fields[k].options :
            /\ fields[k].options[n].value = doc[InOrder(GroupOf(doc, b))[n]].attrib[K_id]
            /\ fields[k].options[n].svgElementId = fields[k].options[n].value
       /\ fields[k].defaultValue = fields[k].options[1].value
       /\ VisiblePlaces(doc, b) # {} =>
            fields[k].currentValue =
              doc[CHOOSE i \in VisiblePlaces(doc, b) :
                    \A j \in VisiblePlaces(doc, b) : j <= i].attrib[K_id]

C14_UniqueFieldIds ==
  pc = "built" =>
    \A i, j \in DOMAIN form_fields : form_fields[i].id = form_fields[j].id => i = j

\* C20: for a document whose only identified element has a non-select identifier,
\* parse_svg_to_form_fields returns exactly the field that parse_field_from_id
\* returns for the element's identifier and text, and no field when it returns None.
C20_BuilderAgreesWithParser ==
  ( /\ pc # "build" /\ Len(svg[1]) = 1 /\ ~HasSelectPart(PartsOf(svg[1][1])) )
  => /\ pc = "built"
     /\ form_fields = parse_field_from_id(svg[1][1].attrib[K_id], ElementText(svg[1][1]))

----------------------------------------------------------------------------
(* Specification of the dependency resolver: _extract_from_dependency on a
   character expression N[ch...] and the value of N *)

\* the greatest position a character expression names
MaxPos == 6

X_HELLO == <<"H","E","L","L","O">>

\* the decimal digit of a position
Digit(p) == <<Digits[p + 1]>>

ExtractValues == {SubSeq(X_HELLO, 1, n) : n \in 0..Len(X_HELLO)}

\* a single index, a comma list of two, a range
ExtractPatterns ==
  {Digit(p) : p \in 0..MaxPos}
  \cup {Digit(p) \o <<",">> \o Digit(q) : p, q \in 0..MaxPos}
  \cup {Digit(p) \o <<"-">> \o Digit(q) : p, q \in 0..MaxPos}

InitExtract ==
  /\ field_updates = Idle /\ cache = Idle
  /\ pc = "extract"
  /\ text_content \in ExtractValues
  /\ \E pattern \in ExtractPatterns : element_id = I_N \o <<"[","c","h">> \o pattern \o <<"]">>
  /\ result = <<>>
  /\ svg = Idle /\ form_fields = Idle /\ patches = Idle /\ parsed = Idle

\* update_svg_from_field_updates, line 199: the dependency element_id resolved
\* against the field values, N holding text_content
ExtractFromDependency ==
  /\ pc = "extract"
  /\ result' = <<_extract_from_dependency(element_id, I_N :> text_content)>>
  /\ pc' = "extracted"
  /\ UNCHANGED <<element_id, text_content, parsed, svg, form_fields, patches,
                 field_updates, cache>>

NextExtract == ExtractFromDependency

SpecExtract == InitExtract /\ [][NextExtract]_vars

\* the pattern between "[ch" and "]" of a character expression
PatternOf(d) == SubSeq(d, Find(d, <<"[">>) + 3, Len(d) - 1)

\* the 1-indexed positions a pattern lists, in order
RECURSIVE Upto(_, _)
Upto(a, b) == IF a > b THEN <<>> ELSE <<a>> \o Upto(a + 1, b)

Listed(pattern) ==
  IF Contains(pattern, <<",">>)
  THEN [i \in DOMAIN Split(pattern, ",") |-> IntOf(Split(pattern, ",")[i])]
  ELSE IF Contains(pattern, <<"-">>)
  THEN Upto(IntOf(Split(pattern, "-")[1]), IntOf(Split(pattern, "-")[2]))
  ELSE <<IntOf(pattern)>>

\* the characters of s at the positions that lie in 1..Len(s)
RECURSIVE CharsListed(_, _)
CharsListed(s, positions) ==
  IF positions = <<>> THEN <<>>
  ELSE (IF Head(positions) \in 1..Len(s) THEN <<s[Head(positions)]>> ELSE <<>>)
       \o CharsListed(s, Tail(positions))

\* C13: the resolver returns, for N[ch<pattern>], exactly the characters of the
\* value of N at the listed 1-indexed positions that lie in 1..len, in order;
\* a position outside, position 0 included, contributes no character.
C13_CharsOneIndexedTotal ==
  pc = "extracted" => result[1] = CharsListed(text_content, Listed(PatternOf(element_id)))

----------------------------------------------------------------------------
(* Claims about the values update_svg_from_field_updates computes and returns *)

\* C15: the result of a call of update_svg_from_field_updates is the result the
\* call has on its own document, field list and updates, whatever calls were made
\* before it: the second call returns what a first call with its inputs returns.
C15_RenderDeterministic ==
  pc = "rendered twice" =>
    result[2] = Returned(update_svg_from_field_updates(svg, form_fields, field_updates, <<>>))

\* no value: None or the empty string
NoValue(v) == v \in {NoneVal, <<>>}

\* the value a field holds before a render: its current value when it has one,
\* else its default value
HeldValue(field) ==
  IF ~NoValue(Get(field, "currentValue")) THEN field.currentValue
  ELSE Get(field, "defaultValue")

\* C19: the field list a render returns holds, for every field without dependency
\* for which no update was submitted, the current value the field had before, and
\* the default value when it had none, booleans included.
C19_UnsubmittedValueKept ==
  pc = "rendered" =>
    \A i \in 1..Len(form_fields) :
      ( /\ ~Truthy(Get(form_fields[i], "dependsOn"))
        /\ \A u \in 1..Len(field_updates) : Get(field_updates[u], "id") # form_fields[i].id )
      => \/ result[1].fields[i].currentValue = HeldValue(form_fields[i])
         \/ NoValue(result[1].fields[i].currentValue) /\ NoValue(HeldValue(form_fields[i]))

----------------------------------------------------------------------------
(* Claims about reorder, missing targets and deletion in apply_svg_patches *)

\* the place of the first element of a document with the id, 0 when none has it
IdPlace(doc, id) ==
  IF \E i \in 1..Len(doc) : Attr(doc[i], K_id, NoneVal) = id
  THEN CHOOSE i \in 1..Len(doc) :
         /\ Attr(doc[i], K_id, NoneVal) = id
         /\ \A j \in 1..(i - 1) : Attr(doc[j], K_id, NoneVal) # id
  ELSE 0

\* the reference of a reorder value resolves: it names an element of the document
\* other than the patched one
Resolves(doc, patch, key) ==
  /\ key \in DOMAIN patch.value
  /\ patch.value[key] # patch.id
  /\ IdPlace(doc, patch.value[key]) # 0

\* C16: after a batch of one reorder patch on an element found by its id, the element
\* is the immediate predecessor of beforeId's element when beforeId resolves, and
\* otherwise the immediate successor of afterId's element when afterId resolves.
C16_ReorderPlacement ==
  ( /\ pc = "applied" /\ Len(patches) = 1
    /\ patches[1].attribute = A_reorder /\ IsDict(patches[1])
    /\ IdPlace(svg[1], patches[1].id) # 0 )
  => /\ Resolves(svg[1], patches[1], "beforeId") =>
          IdPlace(result[1], patches[1].id) + 1
            = IdPlace(result[1], patches[1].value.beforeId)
     /\ ( ~Resolves(svg[1], patches[1], "beforeId")
          /\ Resolves(svg[1], patches[1], "afterId") ) =>
          IdPlace(result[1], patches[1].id)
            = IdPlace(result[1], patches[1].value.afterId) + 1

\* the tree a batch's patch at place k is applied to
TreeBefore(doc, batch, k) == ApplyLoop(ParseTree(doc), SubSeq(batch, 1, k - 1))

\* the patches of a batch that reach the element lookup and find no element
MissingTarget(doc, batch) ==
  {k \in 1..Len(batch) :
     /\ Truthy(Get(batch[k], "id")) /\ Truthy(Get(batch[k], "attribute"))
     /\ \A key \in {K_id, K_name, K_data_name} :
          XPath(TreeBefore(doc, batch, k), key, batch[k].id) = <<>>}

\* C17: a patch whose target matches no element by id, name or data-name changes
\* nothing: the batch gives the document that the batch without this patch gives.
C17_MissingTargetSkipped ==
  pc = "applied" =>
    \A k \in MissingTarget(svg[1], patches) :
      result[1] = apply_svg_patches(svg[1], Remove(patches, k))

\* a batch whose first patch finds no element and whose second changed the document
C17_Witness ==
  /\ pc = "applied"
  /\ Len(patches) = 2
  /\ 1 \in MissingTarget(svg[1], patches)
  /\ result[1] # svg[1]
  /\ result[1] = apply_svg_patches(svg[1], Tail(patches))

\* a patch that deletes: an ordinary attribute, and a value that is None or empty
Deletes(patch) ==
  /\ Truthy(Get(patch, "id")) /\ Truthy(Get(patch, "attribute"))
  /\ patch.attribute \notin {A_innerText, A_reorder}
  /\ ("value" \notin DOMAIN patch \/ patch.value = SVal(<<>>))

\* the key an attribute name is stored under: prefix:name of a registered prefix is
\* {uri}name
KeyOf(attribute) ==
  IF /\ Contains(attribute, <<":">>)
     /\ SubSeq(attribute, 1, Find(attribute, <<":">>) - 1) \in DOMAIN namespaces
  THEN <<"{">> \o namespaces[SubSeq(attribute, 1, Find(attribute, <<":">>) - 1)]
       \o <<"}">> \o From(attribute, Find(attribute, <<":">>) + 1)
  ELSE attribute

\* the places of the elements the last patch of a batch addresses
LastTargets(doc, batch) ==
  {PlaceOf(TreeBefore(doc, batch, Len(batch)),
           FindElements(TreeBefore(doc, batch, Len(batch)), batch[Len(batch)].id)[k]) :
     k \in DOMAIN FindElements(TreeBefore(doc, batch, Len(batch)), batch[Len(batch)].id)}

\* C18: after a batch whose last patch deletes an attribute, the elements the patch
\* addresses do not have the attribute, and their other attributes are as they were
\* before the patch.
C18_EmptyValueDeletes ==
  ( pc = "applied" /\ patches # <<>> /\ Deletes(patches[Len(patches)]) )
  => \A i \in LastTargets(svg[1], patches) :
       /\ KeyOf(patches[Len(patches)].attribute) \notin DOMAIN result[1][i].attrib
       /\ \A key \in (DOMAIN TreeBefore(svg[1], patches, Len(patches))[i].attrib
                        \cup DOMAIN result[1][i].attrib)
                     \ {KeyOf(patches[Len(patches)].attribute)} :
            /\ key \in DOMAIN result[1][i].attrib
            /\ key \in DOMAIN TreeBefore(svg[1], patches, Len(patches))[i].attrib
            /\ result[1][i].attrib[key]
                 = TreeBefore(svg[1], patches, Len(patches))[i].attrib[key]

----------------------------------------------------------------------------
(* Claims about links and tracking ids in the id-only parser, under SpecParse *)

\* a dict without some of its keys
Without(d, keys) == [k \in DOMAIN d \ keys |-> d[k]]

\* C21: for an identifier p.link_u, p without link, parse_field_from_id returns a
\* field iff it returns one for p, and that field has link u and is otherwise, but
\* for its element id, the field of p, whatever u holds.
C21_LinkDoesNotInterfere ==
  ( pc = "parsed" /\ Contains(element_id, P_link) )
  => /\ (parsed # <<>>)
          <=> (parse_field_from_id(extract_link_url(element_id).cleaned_id, text_content) # <<>>)
     /\ parsed # <<>> =>
          /\ Get(parsed[1], "link") = extract_link_url(element_id).url
          /\ Without(parsed[1], {"link", "svgElementId"})
               = Without(parse_field_from_id(extract_link_url(element_id).cleaned_id,
                                             text_content)[1], {"link", "svgElementId"})

\* C22: every field parse_field_from_id returns with isTrackingId set has type gen,
\* whatever the other parts of the identifier are and wherever they stand.
C22_TrackingIdIsGenerated ==
  ( pc = "parsed" /\ parsed # <<>> /\ parsed[1].isTrackingId ) => parsed[1].type = T_gen

----------------------------------------------------------------------------
(* The field builder: track_ segments *)

\* the identifiers of the document in which a track_ part is not the last part
Mistracked(doc) ==
  {doc[i].attrib[K_id] : i \in {j \in DOMAIN doc : ~validate_track_position(PartsOf(doc[j]))}}

\* C24: an identifier whose track_ part is not its last segment contributes no field
\* and no option to the list parse_svg_to_form_fields returns, and no field carries
\* a tracking role taken from it.
C24_TrackOnlyWhenLast ==
  pc = "built" =>
    \A k \in DOMAIN form_fields :
      /\ form_fields[k].svgElementId \notin Mistracked(svg[1])
      /\ "options" \in DOMAIN form_fields[k] =>
           \A n \in DOMAIN form_fields[k].options :
             form_fields[k].options[n].svgElementId \notin Mistracked(svg[1])

----------------------------------------------------------------------------
(* Further claims about sync_form_fields_with_patches, checked under SpecSync *)

\* C23: an id patch on the identifier a regular field owns, whose new identifier
\* encodes no valid field, reports a change and returns the list without that
\* field, the other fields unchanged and in their order.
C23_SyncRemovesInvalid ==
  OnePatch(A_id) =>
    \A i \in OwnersOf(result[1].before, patches[1].id) :
      parse_field_from_id(StrOf(patches[1]), <<>>) = <<>>
      => /\ ~result[1].raised
         /\ result[1].modified
         /\ result[1].fields = Remove(result[1].before, i)

\* the identifiers the patches of a batch name: their targets, and the new
\* identifiers of the id patches
NamedBy(batch) ==
  {Get(batch[k], "id") : k \in 1..Len(batch)}
  \cup {StrOf(batch[k]) : k \in {m \in 1..Len(batch) : Get(batch[m], "attribute") = A_id}}

\* C27: a sync call on a batch ends without an error, and a regular field of the
\* returned list whose identifier no patch of the batch names, in any case of the
\* letters, is a field of the list as it was.
C27_PositionsStayValid ==
  pc = "synced" =>
    /\ ~result[1].raised
    /\ \A j \in 1..Len(result[1].fields) :
         ( /\ Get(result[1].fields[j], "type") # T_select
           /\ \A e \in NamedBy(patches) :
                Lower(e) # Lower(result[1].fields[j].svgElementId) )
         => \E i \in 1..Len(result[1].before) : result[1].before[i] = result[1].fields[j]

\* C28: after a batch of an id patch old -> new, old owned by a regular field and
\* new a valid field identifier, followed by an innerText patch on new, a field of
\* the returned list owns new and holds the text of the second patch.
C28_RenamedFieldReachable ==
  ( /\ pc = "synced" /\ Len(patches) = 2
    /\ Get(patches[1], "attribute") = A_id
    /\ OwnersOf(result[1].before, patches[1].id) # {}
    /\ parse_field_from_id(StrOf(patches[1]), <<>>) # <<>>
    /\ Get(patches[2], "attribute") = A_innerText
    /\ patches[2].id = StrOf(patches[1]) )
  => /\ ~result[1].raised
     /\ \E j \in 1..Len(result[1].fields) :
          /\ result[1].fields[j].svgElementId = StrOf(patches[1])
          /\ result[1].fields[j].currentValue = StrOf(patches[2])
          /\ result[1].fields[j].defaultValue = StrOf(patches[2])

----------------------------------------------------------------------------
(* Merged patch logs and reorder in apply_svg_patches, checked under SpecApply *)

\* C25: the merged patch list applied to a document gives the document that the
\* list itself gives, whatever patches it interleaves.
C25_MergePreservesEffect ==
  pc = "applied merged" => result[2] = result[1]

\* how many elements of a document equal the element e
Copies(doc, e) == Cardinality({i \in 1..Len(doc) : doc[i] = e})

\* the patch addresses one element of the document, and set_element_attribute
\* returns False for it
ReportsFailure(doc, patch) ==
  /\ Truthy(Get(patch, "id"))
  /\ Len(FindElements(ParseTree(doc), patch.id)) = 1
  /\ ~set_element_attribute(ParseTree(doc), FindElements(ParseTree(doc), patch.id)[1],
                            patch).ok

\* C26: a batch of one reorder patch loses no element: the document afterwards holds
\* the elements it held before, each as often; and when set_element_attribute reports
\* failure the document is unchanged.
C26_ReorderKeepsElements ==
  (pc = "applied" /\ Len(patches) = 1 /\ patches[1].attribute = A_reorder)
  => /\ Len(result[1]) = Len(svg[1])
     /\ \A i \in 1..Len(svg[1]) : Copies(result[1], svg[1][i]) = Copies(svg[1], svg[1][i])
     /\ ReportsFailure(svg[1], patches[1]) => result[1] = svg[1]

----------------------------------------------------------------------------
(* Rendering a render's own output, checked under SpecRender *)

Turning(fields) == {i \in 1..Len(fields) : Get(fields[i], "rotation") # NoneVal}

====
